---- MODULE Spec2Model ----
(***************************************************************************)
(* Model of the key-based authentication lane of the KRS viewer server:    *)
(* the LRU cache of per-identity servers (src/src/api-key-handler.ts),     *)
(* the request router (src/src/shared/constants.ts) and the JSON-RPC       *)
(* dispatcher (src/src/api-key-handler.ts).                                *)
(***************************************************************************)
EXTENDS Integers, Sequences, FiniteSets, Bags, TLC

(***************************************************************************)
(* Bounds of the model.                                                    *)
(***************************************************************************)
\* Capacity handed to the LRUCache constructor (the program uses
\* MAX_CACHED_SERVERS = 100; the model scales the capacity down).
MaxSize == 2
\* Largest reading of Date.now() (milliseconds) the model distinguishes.
MaxTime == 1

\* Keys and values offered to the cache when it is driven directly.
CacheKeys == {"u1", "u2", "u3"}
CacheValues == {"s1", "s2"}

\* JavaScript's undefined and null where a string is expected
Undefined == "<undefined>"
Null == "<null>"
Infinity == MaxTime + 1

VARIABLES
  cache,     \* LRUCache.cache: the Map, as the sequence of its entries in iteration order
  recency,   \* history: the cached keys, least recently touched by get/set first
  now,       \* the current reading of Date.now()
  emitted,   \* the log records written by the last step
  ret,       \* the last call made on the cache directly, with what it returned
  reqs,      \* the requests being handled: the bag of those waiting at an await
  created,   \* history: the number of servers constructed per identity
  evictions, \* history: the number of evictions per identity
  arrivals,  \* history: the number of requests that have arrived
  sent,      \* the request answered by the last step, with its answer
  routed,    \* the last request given to the router alone, with its lane
  rpc,       \* the last body given to the dispatcher alone, with its response
  clock,     \* the time in seconds, as CACHE_KV counts it
  kv,        \* CACHE_KV: the set of its entries
  calls,     \* the view_company calls being handled: the bag of those waiting at an await
  lookups,   \* history: the number of view_company calls made
  written,   \* history: per cache key, the record last handed to CACHE_KV.put
  ended,     \* the view_company call that ended in the last step, with its result
  registered, \* what the agent's server has registered: resources, tools and prompts
  applied    \* the payload given to transformResponse alone, with what it returned

lruVars == <<cache, recency, now, emitted, ret>>
serverVars == <<reqs, created, evictions, arrivals, sent>>
krsVars == <<clock, kv, calls, lookups, written, ended, registered, applied>>
vars == <<cache, recency, now, emitted, ret, reqs, created, evictions, arrivals, sent, routed, rpc,
          clock, kv, calls, lookups, written, ended, registered, applied>>

(***************************************************************************)
(* LRUCache<K, V>                                                          *)
(***************************************************************************)
Keys(c) == {c[i].key : i \in 1..Len(c)}

\* Map.has
MapHas(c, key) == \E i \in 1..Len(c) : c[i].key = key

IndexOf(c, key) == CHOOSE i \in 1..Len(c) : c[i].key = key

\* Map.delete: the remaining entries keep their order
MapDelete(c, key) ==
  LET F[i \in 0..Len(c)] ==
        IF i = 0 THEN <<>>
        ELSE IF c[i].key = key THEN F[i - 1] ELSE Append(F[i - 1], c[i])
  IN F[Len(c)]

\* Map.set: an existing key keeps its place, a new key goes last
MapSet(c, key, entry) ==
  IF MapHas(c, key)
  THEN [c EXCEPT ![IndexOf(c, key)] = [key |-> key, value |-> entry.value,
                                      lastAccessed |-> entry.lastAccessed]]
  ELSE Append(c, [key |-> key, value |-> entry.value, lastAccessed |-> entry.lastAccessed])

\* get as it would be if a miss left an empty entry behind
LRUGetCache_InsertsOnMiss(c, key, t) ==
  IF MapHas(c, key) THEN [c EXCEPT ![IndexOf(c, key)].lastAccessed = t]
  ELSE Append(c, [key |-> key, value |-> Undefined, lastAccessed |-> t])

\* get as it would be if a hit did not refresh the timestamp
LRUGetCache_NoRefresh(c, key, t) == c

\* LRUCache.get: the cache after the call
LRUGetCache(c, key, t) ==
  IF MapHas(c, key) THEN [c EXCEPT ![IndexOf(c, key)].lastAccessed = t] ELSE c

\* LRUCache.get: the value returned
LRUGetValue(c, key) ==
  IF MapHas(c, key) THEN c[IndexOf(c, key)].value ELSE Undefined

\* has as it would be if it answered whether the cache holds any entry
LRUHas_AnyEntry(c, key) == Len(c) > 0

\* LRUCache.has
LRUHas(c, key) == MapHas(c, key)

\* LRUCache.size
LRUSize(c) == Len(c)

\* The scan as it would be with <= in place of <: among equal timestamps
\* the last entry wins
OldestKey_LastAmongEqual(c) ==
  LET Scan[i \in 0..Len(c)] ==
        IF i = 0 THEN [oldestKey |-> Undefined, oldestTime |-> Infinity]
        ELSE IF c[i].lastAccessed <= Scan[i - 1].oldestTime
             THEN [oldestKey |-> c[i].key, oldestTime |-> c[i].lastAccessed]
             ELSE Scan[i - 1]
  IN Scan[Len(c)].oldestKey

\* The scan of evictLRU: the key of the first entry, in iteration order, whose
\* lastAccessed is below every one before it
OldestKey(c) ==
  LET Scan[i \in 0..Len(c)] ==
        IF i = 0 THEN [oldestKey |-> Undefined, oldestTime |-> Infinity]
        ELSE IF c[i].lastAccessed < Scan[i - 1].oldestTime
             THEN [oldestKey |-> c[i].key, oldestTime |-> c[i].lastAccessed]
             ELSE Scan[i - 1]
  IN Scan[Len(c)].oldestKey

\* evictLRU as it would be if it deleted every entry as old as the oldest
EvictLRU_AllOldest(c) ==
  LET oldestKey == OldestKey(c)
      IsNewer(e) == e.lastAccessed > c[IndexOf(c, oldestKey)].lastAccessed
  IN IF oldestKey # Undefined
     THEN [cache |-> SelectSeq(c, IsNewer),
           log |-> <<[event |-> "lru_cache_eviction", evicted_user_id |-> oldestKey,
                      cache_size |-> Len(c)]>>]
     ELSE [cache |-> c, log |-> <<>>]

\* LRUCache.evictLRU: the cache after the call and the log records written
EvictLRU(c) ==
  LET oldestKey == OldestKey(c) IN
  IF oldestKey # Undefined
  THEN [cache |-> MapDelete(c, oldestKey),
        log |-> <<[event |-> "lru_cache_eviction", evicted_user_id |-> oldestKey,
                   cache_size |-> Len(c)]>>]
  ELSE [cache |-> c, log |-> <<>>]

\* set as it would be if it let the cache grow one past its capacity
SetEvicts_OnePast(c, key, maxSize) == Len(c) > maxSize /\ ~MapHas(c, key)

\* set as it would be if it evicted whenever the cache is full
SetEvicts_WhenFull(c, key, maxSize) == Len(c) >= maxSize

\* set as it would be if it evicted one entry short of its capacity
SetEvicts_OneShort(c, key, maxSize) == Len(c) + 1 >= maxSize /\ ~MapHas(c, key)

\* The condition under which LRUCache.set calls evictLRU
SetEvicts(c, key, maxSize) == Len(c) >= maxSize /\ ~MapHas(c, key)

\* LRUCache.set: the cache after the call and the log records written
LRUSet(c, key, value, t, maxSize) ==
  LET ev == IF SetEvicts(c, key, maxSize) THEN EvictLRU(c) ELSE [cache |-> c, log |-> <<>>]
  IN [cache |-> MapSet(ev.cache, key, [value |-> value, lastAccessed |-> t]),
      log |-> ev.log]

(***************************************************************************)
(* Strings                                                                 *)
(***************************************************************************)
\* String.prototype.startsWith
StartsWith(s, prefix) ==
  Len(s) >= Len(prefix) /\ SubSeq(s, 1, Len(prefix)) = prefix

\* String.prototype.replace with a string pattern: the first occurrence only
Replace(s, pattern, replacement) ==
  LET n == Len(s)
      m == Len(pattern)
      hits == {i \in 1..(n - m + 1) : SubSeq(s, i, i + m - 1) = pattern}
  IN IF hits = {} THEN s
     ELSE LET i == CHOOSE h \in hits : \A g \in hits : h <= g
          IN SubSeq(s, 1, i - 1) \o replacement \o SubSeq(s, i + m, n)

(***************************************************************************)
(* Request router (the worker's fetch)                                     *)
(***************************************************************************)
\* isApiKeyRequest as it would be if it looked at the path only
IsApiKeyRequest_AnyHeader(pathname, authHeader) == pathname = "/mcp"

\* isApiKeyRequest as it would be without the check of the path
IsApiKeyRequest_AnyPath(pathname, authHeader) ==
  IF authHeader = Null \/ authHeader = "" THEN FALSE
  ELSE StartsWith(Replace(authHeader, "Bearer ", ""), "wtyk_")

\* isApiKeyRequest; authHeader is Null when the request has no Authorization header
IsApiKeyRequest(pathname, authHeader) ==
  IF pathname # "/mcp" THEN FALSE
  ELSE IF authHeader = Null \/ authHeader = "" THEN FALSE
  ELSE StartsWith(Replace(authHeader, "Bearer ", ""), "wtyk_")

\* fetch: the lane the request is handed to
FetchLane(pathname, authHeader) ==
  IF IsApiKeyRequest(pathname, authHeader) THEN "api_key" ELSE "oauth"

\* fetch: the log record written before the request is handed on
FetchLog(pathname, authHeader) ==
  <<[event |-> "transport_request", transport |-> "http",
     method |-> FetchLane(pathname, authHeader), user_email |-> ""]>>

(***************************************************************************)
(* JSON values.  A value is a record with its type t and, for strings and  *)
(* numbers, its text v; an object carries its properties as fields.  A     *)
(* property that is missing reads as JUndef, as in JavaScript.             *)
(***************************************************************************)
JUndef == [t |-> "undefined", v |-> ""]
JNull == [t |-> "null", v |-> ""]
JStr(s) == [t |-> "string", v |-> s]
JNum(s) == [t |-> "number", v |-> s]
JTrue == [t |-> "boolean", v |-> "true"]
JFalse == [t |-> "boolean", v |-> "false"]

\* x.name for a value x that is neither null nor undefined
Prop(x, name) == IF x.t = "object" /\ name \in DOMAIN x THEN x[name] ELSE JUndef

\* JavaScript truthiness
Truthy(x) ==
  CASE x.t \in {"undefined", "null"} -> FALSE
    [] x.t = "string" -> x.v # ""
    [] x.t = "number" -> x.v \notin {"0", "NaN"}
    [] x.t = "boolean" -> x.v = "true"
    [] OTHER -> TRUE

\* `${x}` for a string, a number, null or undefined
JText(x) ==
  CASE x.t = "undefined" -> "undefined"
    [] x.t = "null" -> "null"
    [] OTHER -> x.v

\* x === "literal"
IsString(x, literal) == x.t = "string" /\ x.v = literal

(***************************************************************************)
(* JSON-RPC dispatcher                                                     *)
(***************************************************************************)
WidgetUri == "ui://{{SERVER_ID}}/widget"
UI_MIME_TYPE == "text/html;profile=mcp-app"
SERVER_NAME == "{{SERVER_NAME}}"
SERVER_VERSION == "1.0.0"

NoError == JUndef

\* jsonRpcResponse as it would be if it always set the result
JsonRpcResponse_AlwaysResult(id, result, error) ==
  [jsonrpc |-> "2.0", id |-> id, result |-> result, error |-> error]

\* jsonRpcResponse: the object that is serialized; JSON.stringify leaves out a
\* property whose value is undefined
JsonRpcResponse(id, result, error) ==
  IF Truthy(error)
  THEN [jsonrpc |-> "2.0", id |-> id, result |-> JUndef, error |-> error]
  ELSE [jsonrpc |-> "2.0", id |-> id, result |-> result, error |-> JUndef]

RpcError(code, message) == [t |-> "object", code |-> code, message |-> message]

HandleInitialize(request) ==
  JsonRpcResponse(Prop(request, "id"),
    [t |-> "object", protocolVersion |-> "2024-11-05",
     capabilities |-> {"tools", "prompts", "resources"},
     serverInfo |-> [name |-> SERVER_NAME, version |-> SERVER_VERSION]], NoError)

HandlePing(request) ==
  JsonRpcResponse(Prop(request, "id"), [t |-> "object"], NoError)

\* handleToolsList as it would be if it listed a tool that handleToolsCall
\* has no case for
HandleToolsList_ListsUnhandled(request) ==
  JsonRpcResponse(Prop(request, "id"),
    [t |-> "object", tools |-> <<[name |-> "example-tool", title |-> "Example Tool"],
                                 [name |-> "view_company", title |-> "View Company"]>>],
    NoError)

HandleToolsList(request) ==
  JsonRpcResponse(Prop(request, "id"),
    [t |-> "object", tools |-> <<[name |-> "example-tool", title |-> "Example Tool"]>>],
    NoError)

\* params || {}
ParamsOrEmpty(request) ==
  LET params == Prop(request, "params")
  IN IF Truthy(params) THEN params ELSE [t |-> "object"]

\* A property of the destructured params: missing properties read as undefined
ParamOf(request, name) == Prop(ParamsOrEmpty(request), name)

\* (args?.input as string) || ""
ToolInput(args) ==
  LET input == IF args.t \in {"undefined", "null"} THEN JUndef ELSE Prop(args, "input")
  IN IF Truthy(input) THEN input ELSE JStr("")

\* handleToolsCall as it would be if it answered with one identity kept for
\* all callers
HandleToolsCall_SharedIdentity(request, userId, timestamp) ==
  LET name == ParamOf(request, "name")
      args == ParamOf(request, "arguments")
  IN IF IsString(name, "example-tool")
     THEN LET result == [message |-> "Processed: " \o JText(ToolInput(args)),
                         timestamp |-> timestamp,
                         userId |-> "u1"]
          IN JsonRpcResponse(Prop(request, "id"),
               [t |-> "object",
                content |-> <<[type |-> "text", text |-> result]>>,
                structuredContent |-> result], NoError)
     ELSE JsonRpcResponse(Prop(request, "id"), JNull,
            RpcError(-32602, "Unknown tool: " \o JText(name)))

HandleToolsCall(request, userId, timestamp) ==
  LET name == ParamOf(request, "name")
      args == ParamOf(request, "arguments")
  IN IF IsString(name, "example-tool")
     THEN LET result == [message |-> "Processed: " \o JText(ToolInput(args)),
                         timestamp |-> timestamp,
                         userId |-> userId]
          IN JsonRpcResponse(Prop(request, "id"),
               [t |-> "object",
                content |-> <<[type |-> "text", text |-> result]>>,
                structuredContent |-> result], NoError)
     ELSE JsonRpcResponse(Prop(request, "id"), JNull,
            RpcError(-32602, "Unknown tool: " \o JText(name)))

HandleResourcesList(request) ==
  JsonRpcResponse(Prop(request, "id"),
    [t |-> "object",
     resources |-> <<[uri |-> WidgetUri, name |-> "main_widget",
                      mimeType |-> UI_MIME_TYPE]>>], NoError)

\* handleResourcesRead calls loadHtml exactly for the widget's URI
ReadsAsset(request) == IsString(ParamOf(request, "uri"), WidgetUri)

\* handleResourcesRead as it would be if an unknown URI read as an empty resource
HandleResourcesRead_EmptyOnUnknown(request) ==
  LET uri == ParamOf(request, "uri")
  IN JsonRpcResponse(Prop(request, "id"),
       [t |-> "object",
        contents |-> IF IsString(uri, WidgetUri)
                     THEN <<[uri |-> WidgetUri, mimeType |-> UI_MIME_TYPE,
                             text |-> "widget.html"]>>
                     ELSE <<>>], NoError)

\* handleResourcesRead when loadHtml, if called, returns the HTML
HandleResourcesRead(request) ==
  LET uri == ParamOf(request, "uri")
  IN IF IsString(uri, WidgetUri)
     THEN JsonRpcResponse(Prop(request, "id"),
            [t |-> "object",
             contents |-> <<[uri |-> WidgetUri, mimeType |-> UI_MIME_TYPE,
                             text |-> "widget.html"]>>], NoError)
     ELSE JsonRpcResponse(Prop(request, "id"), JNull,
            RpcError(-32602, "Unknown resource: " \o JText(uri)))

HandlePromptsList(request) ==
  JsonRpcResponse(Prop(request, "id"), [t |-> "object", prompts |-> <<>>], NoError)

\* The catch block as it would be without the sentinel id
ParseErrorResponse_NoSentinel(reason) ==
  JsonRpcResponse(JUndef, JNull, RpcError(-32700, "Parse error: " \o reason))

\* The catch block of handleHTTPTransport
ParseErrorResponse(reason) ==
  JsonRpcResponse(JStr("error"), JNull, RpcError(-32700, "Parse error: " \o reason))

\* The marker check as it would be if it only asked for a string
InvalidMarker_AnyString(request) == Prop(request, "jsonrpc").t # "string"

\* jsonRpcRequest.jsonrpc !== "2.0"
InvalidMarker(request) == ~IsString(Prop(request, "jsonrpc"), "2.0")

\* The default case as it would be without the method's name in the message
MethodNotFound_Unnamed(request) ==
  JsonRpcResponse(Prop(request, "id"), JNull, RpcError(-32601, "Method not found"))

\* The default case of the switch on the method
MethodNotFound(request) ==
  JsonRpcResponse(Prop(request, "id"), JNull,
    RpcError(-32601, "Method not found: " \o JText(Prop(request, "method"))))

\* handleHTTPTransport.  body is what request.json() finds: text that is not
\* JSON (t = "invalid") or a JSON value; assetOk tells whether loadHtml
\* succeeds.  Yields the response and the handler the switch has called.
HandleHTTPTransport(body, userId, assetOk, timestamp) ==
  IF body.t = "invalid"
  THEN [response |-> ParseErrorResponse("Unexpected token"), handler |-> "none"]
  ELSE IF body.t = "null"
  THEN [response |-> ParseErrorResponse("Cannot read properties of null"),
        handler |-> "none"]
  ELSE IF InvalidMarker(body)
  THEN [response |-> JsonRpcResponse(Prop(body, "id"), JNull,
                                     RpcError(-32600, "Invalid Request")),
        handler |-> "none"]
  ELSE LET method == Prop(body, "method") IN
    CASE IsString(method, "initialize") ->
           [response |-> HandleInitialize(body), handler |-> "handleInitialize"]
      [] IsString(method, "ping") ->
           [response |-> HandlePing(body), handler |-> "handlePing"]
      [] IsString(method, "tools/list") ->
           [response |-> HandleToolsList(body), handler |-> "handleToolsList"]
      [] IsString(method, "tools/call") ->
           [response |-> HandleToolsCall(body, userId, timestamp),
            handler |-> "handleToolsCall"]
      [] IsString(method, "resources/list") ->
           [response |-> HandleResourcesList(body), handler |-> "handleResourcesList"]
      [] IsString(method, "resources/read") ->
           [response |-> IF ReadsAsset(body) /\ ~assetOk
                         THEN ParseErrorResponse("asset not found")
                         ELSE HandleResourcesRead(body),
            handler |-> "handleResourcesRead"]
      [] IsString(method, "prompts/list") ->
           [response |-> HandlePromptsList(body), handler |-> "handlePromptsList"]
      [] OTHER -> [response |-> MethodNotFound(body), handler |-> "none"]

\* handleHTTPTransport waits a second time, at `await loadHtml(...)` in
\* handleResourcesRead: the body has the marker, the method resources/read
\* and the widget's URI
AwaitsAsset(body) ==
  /\ ~InvalidMarker(body)
  /\ IsString(Prop(body, "method"), "resources/read")
  /\ ReadsAsset(body)

(***************************************************************************)
(* History of touches: the cached keys in the order of their last get/set. *)
(***************************************************************************)
\* key was touched by a get or a set, and the keys of c2 are the ones cached afterwards
Touched(s, key, c2) ==
  LET kept == SelectSeq(s, LAMBDA k : k # key /\ MapHas(c2, k))
  IN IF MapHas(c2, key) THEN Append(kept, key) ELSE kept

(***************************************************************************)
(* Key-based lane: handleApiKeyRequest and getOrCreateServer               *)
(***************************************************************************)
\* The number of requests that arrive in a run
MaxRequests == 3
\* The number of requests that wait at an await together
MaxInFlight == 2

Identities == {"u1", "u2", "u3"}

\* validateApiKey: the keys on record and the user each belongs to; any other
\* key is answered with null
ApiKeyOwner ==
  [k \in {"wtyk_u1", "wtyk_u2", "wtyk_u3"} |->
     CASE k = "wtyk_u1" -> [userId |-> "u1", email |-> "u1@example.com"]
       [] k = "wtyk_u2" -> [userId |-> "u2", email |-> "u2@example.com"]
       [] k = "wtyk_u3" -> [userId |-> "u3", email |-> "u3@example.com"]]

NoUser == [userId |-> Null, email |-> Null]

ValidateApiKey(apiKey) ==
  IF apiKey \in DOMAIN ApiKeyOwner THEN ApiKeyOwner[apiKey] ELSE NoUser

\* authHeader?.replace("Bearer ", "")
ExtractApiKey(authHeader) ==
  IF authHeader = Null THEN Undefined ELSE Replace(authHeader, "Bearer ", "")

\* The handler as it would be without the check for a missing key
MissingApiKey_Unchecked(apiKey) == FALSE

\* !apiKey
MissingApiKey(apiKey) == apiKey = Undefined \/ apiKey = ""

\* jsonError
JsonError(message, status) == [status |-> status, error |-> message]

NoServer == [userId |-> Null, serial |-> 0]

\* The record as it would be if the key that failed were logged with it
AuthFailureLog_WithKey(apiKey) ==
  <<[event |-> "auth_attempt", method |-> "api_key", success |-> FALSE,
     reason |-> "Invalid or expired API key: " \o apiKey]>>

\* logger.warn after validateApiKey answered null for the key
AuthFailureLog(apiKey) ==
  <<[event |-> "auth_attempt", method |-> "api_key", success |-> FALSE,
     reason |-> "Invalid or expired API key"]>>

\* logger.info after validateApiKey answered a user
AuthSuccessLog(user) ==
  <<[event |-> "auth_attempt", method |-> "api_key", user_email |-> user.email,
     user_id |-> user.userId, success |-> TRUE]>>

\* A value that is thrown: an Error of a class (name) with its message, or
\* a string, which is no Error
ErrorOf(name, message) == [name |-> name, message |-> message]
ThrownString(text) == [name |-> "", message |-> text]

\* error instanceof Error
InstanceOfError(error) == error.name # ""

\* String(error): Error.prototype.toString gives the name alone when the
\* message is empty, a string is itself
StringOf(error) ==
  IF ~InstanceOfError(error) THEN error.message
  ELSE IF error.message = "" THEN error.name
  ELSE error.name \o ": " \o error.message

\* error instanceof Error ? error.message : String(error)
MessageOf(error) ==
  IF InstanceOfError(error) THEN error.message ELSE StringOf(error)

\* The catch block as it would be if it logged the error and threw it again
ApiKeyCatch_Rethrows(error) ==
  [log |-> <<[event |-> "server_error", error |-> MessageOf(error),
              context |-> "API key handler"]>>,
   status |-> 0, error |-> MessageOf(error)]

\* The catch block of handleApiKeyRequest: the log record it writes and the
\* response it returns for the value caught
ApiKeyCatch(error) ==
  [log |-> <<[event |-> "server_error", error |-> MessageOf(error),
              context |-> "API key handler"]>>,
   status |-> 500, error |-> "Internal server error: " \o MessageOf(error)]

\* The catch block of fetch: the log record and the response, whose body
\* holds error and message
FetchCatch(error) ==
  [log |-> <<[event |-> "server_error", error |-> StringOf(error),
              context |-> "Dual auth handler"]>>,
   status |-> 500, error |-> "Internal server error", message |-> MessageOf(error)]

\* The values with which oauthProvider.fetch rejects
ProviderErrors ==
  {ErrorOf("Error", "OAUTH_ERROR"), ErrorOf("Error", ""), ErrorOf("TypeError", "bad type"),
   ThrownString("plain text")}

\* getOrCreateServer as it would be without the lookup of the cached server
GetOrCreateServer_NoLookup(c, userId, t, serial, maxSize) ==
  LET server == [userId |-> userId, serial |-> serial]
      r == LRUSet(c, userId, server, t, maxSize)
  IN [cache |-> r.cache, server |-> server, constructed |-> TRUE, log |-> r.log]

\* getOrCreateServer: the cache afterwards, the server returned, whether it
\* was constructed by this call, and the log records written.  serial numbers
\* the servers constructed for the identity.
GetOrCreateServer(c, userId, t, serial, maxSize) ==
  IF MapHas(c, userId)
  THEN [cache |-> LRUGetCache(c, userId, t), server |-> LRUGetValue(c, userId),
        constructed |-> FALSE, log |-> <<>>]
  ELSE LET server == [userId |-> userId, serial |-> serial]
           r == LRUSet(c, userId, server, t, maxSize)
       IN [cache |-> r.cache, server |-> server, constructed |-> TRUE, log |-> r.log]

IdleRequest ==
  [pc |-> "idle", via |-> "none", pathname |-> Null, authHeader |-> Null,
   body |-> JUndef, apiKey |-> Undefined, userId |-> Null, email |-> Null,
   server |-> NoServer, status |-> 0, error |-> Null, response |-> JUndef,
   handler |-> "none", auth |-> "none", usedCache |-> FALSE]

\* Bodies sent to the server
Envelope(jsonrpc, id, method, params) ==
  [t |-> "object", jsonrpc |-> jsonrpc, id |-> id, method |-> method, params |-> params]

InvalidJson == [t |-> "invalid"]

\* The bodies of the requests of the server lane: calls of the tool, on
\* which handleHTTPTransport waits for the body only.  The dispatcher on
\* bodies of every shape, with its wait for the widget's HTML, is driven
\* on its own.
ServerBodies ==
  { Envelope(JStr("2.0"), JNum("2"), JStr("tools/call"),
             [t |-> "object", name |-> JStr("example-tool"),
              arguments |-> [t |-> "object", input |-> JStr("abc")]]) }

\* The pathname that a module that calls handleApiKeyRequest itself hands to
\* it: one that is not the protocol endpoint (the router hands "/mcp" only)
DirectPathnames == {"/sse"}
ServerAuthHeaders == {Null, "Bearer wtyk_u1", "Bearer wtyk_u2", "Bearer wtyk_revoked"}
\* The requests that arrive at the router: each header on the protocol
\* endpoint (the paths and headers of other shapes are given to the router
\* alone)
ServerRequests == {[pathname |-> "/mcp", authHeader |-> h] : h \in ServerAuthHeaders}
\* Headers of the requests that reach the handler without the router: none,
\* and the key of a third user
DirectAuthHeaders == {Null, "Bearer wtyk_u3"}

(***************************************************************************)
(* More of JavaScript on JSON values.  An array is a record with t =       *)
(* "array" and its elements in items.                                      *)
(***************************************************************************)
JArr(items) == [t |-> "array", items |-> items]

\* x?.name
Opt(x, name) == IF x.t \in {"undefined", "null"} THEN JUndef ELSE Prop(x, name)

\* x || y
Or(x, y) == IF Truthy(x) THEN x ELSE y

\* An Error thrown, with its message
Thrown(message) == [t |-> "thrown", message |-> message]

\* x.name throws a TypeError
Throws(x) == x.t \in {"undefined", "null"}

\* The elements of (x || []): an array's items, none when x is missing
ItemsOrNone(x) == IF x.t = "array" THEN x.items ELSE <<>>

\* What JSON.stringify keeps of a value: a property whose value is undefined
\* is left out, an element that is undefined becomes null
RECURSIVE Kept(_)
Kept(x) ==
  CASE x.t = "object" ->
         [f \in {g \in DOMAIN x : g = "t" \/ x[g].t # "undefined"} |->
            IF f = "t" THEN "object" ELSE Kept(x[f])]
    [] x.t = "array" ->
         JArr([i \in 1..Len(x.items) |->
                 IF x.items[i].t = "undefined" THEN JNull ELSE Kept(x.items[i])])
    [] OTHER -> x

\* JSON.stringify: the text, given by the value it denotes
Stringify(x) == [t |-> "text", json |-> Kept(x)]

\* JSON.parse of a text that JSON.stringify wrote
Parse(text) == text.json

(***************************************************************************)
(* KrsClient: the payloads of the registry and transformResponse.  In a    *)
(* string, a character outside ASCII is written as its JavaScript escape   *)
(* (\u and the four hexadecimal digits of each UTF-16 code unit).           *)
(***************************************************************************)
KRS_API_BASE == "https://api-krs.ms.gov.pl/api/krs"

\* new Date().toISOString() at the clock reading t
ToISOString(t) == JStr("1970-01-01T00:00:0" \o ToString(t) \o ".000Z")

\* type === "aktualny" ? "OdpisAktualny" : "OdpisPelny"
Endpoint(type) == IF type = "aktualny" THEN "OdpisAktualny" ELSE "OdpisPelny"

\* The URL getCompany asks the registry for
RegistryUrl(krs, type) ==
  KRS_API_BASE \o "/" \o Endpoint(type) \o "/" \o krs \o "?rejestr=P&format=json"

Person(imie, nazwisko) ==
  [t |-> "object", imiona |-> [t |-> "object", imie |-> imie],
   nazwisko |-> [t |-> "object", nazwisko |-> nazwisko]]

Pkd(kodDzial, kodKlasa, kodPodklasa, opis) ==
  [t |-> "object", kodDzial |-> JStr(kodDzial), kodKlasa |-> JStr(kodKlasa),
   kodPodklasa |-> JStr(kodPodklasa), opis |-> JStr(opis)]

\* An extract with every section the registry can send
FullPayload(krs, type) ==
  [t |-> "object",
   odpis |->
     [t |-> "object",
      rodzaj |-> JStr(IF type = "aktualny" THEN "Aktualny" ELSE "Pelny"),
      naglowekA |->
        [t |-> "object", numerKRS |-> JStr(krs),
         dataRejestracjiWKRS |-> JStr("12.03.2002"), stanZDnia |-> JStr("01.10.2026"),
         dataCzasOdpisu |-> JStr("01.10.2026 10:00:00")],
      dane |->
        [t |-> "object",
         dzial1 |->
           [t |-> "object",
            danePodmiotu |->
              [t |-> "object", formaPrawna |-> JStr("SP. Z O.O."),
               identyfikatory |-> [t |-> "object", nip |-> JStr("5260250995"),
                                   regon |-> JStr("012100784")],
               nazwa |-> JStr("ACME " \o type)],
            siedzibaIAdres |->
              [t |-> "object",
               siedziba |-> [t |-> "object", kraj |-> JStr("POLSKA"),
                             wojewodztwo |-> JStr("MAZOWIECKIE"),
                             miejscowosc |-> JStr("WARSZAWA")],
               adres |-> [t |-> "object", ulica |-> JStr("UL. PROSTA"),
                          nrDomu |-> JStr("1"), nrLokalu |-> JStr("2"),
                          kodPocztowy |-> JStr("00-001")]],
            kapital |->
              [t |-> "object",
               wysokoscKapitaluZakladowego |->
                 [t |-> "object", wartosc |-> JStr("5000,00"), waluta |-> JStr("PLN")]],
            wspolnicySpzoo |->
              JArr(<<Person(JStr("JAN"), JStr("KOWALSKI")) @@
                       [posiadaneUdzialy |-> JStr("100 UDZIALOW")],
                     Person(JUndef, JStr("NOWAK")) @@
                       [posiadaneUdzialy |-> JStr("50 UDZIALOW")]>>)],
         dzial2 |->
           [t |-> "object",
            reprezentacja |->
              [t |-> "object", nazwaOrganu |-> JStr("ZARZAD SPOLKI"),
               sposobReprezentacji |-> JStr("JEDNOOSOBOWO"),
               sklad |-> JArr(<<Person(JStr("ANNA"), JStr("NOWAK")) @@
                                  [funkcjaWOrganie |-> JStr("PREZES")]>>)]],
         dzial3 |->
           [t |-> "object",
            przedmiotDzialalnosci |->
              [t |-> "object",
               przedmiotPrzewazajacejDzialalnosci |->
                 JArr(<<Pkd("62", "01", "Z", "OPROGRAMOWANIE")>>),
               przedmiotPozostalejDzialalnosci |->
                 JArr(<<Pkd("62", "02", "Z", "DORADZTWO")>>)]]]]]

\* An extract without any of the optional parts
BarePayload(krs, type) ==
  [t |-> "object",
   odpis |->
     [t |-> "object",
      rodzaj |-> JStr(IF type = "aktualny" THEN "Aktualny" ELSE "Pelny"),
      naglowekA |->
        [t |-> "object", numerKRS |-> JStr(krs),
         dataRejestracjiWKRS |-> JStr("12.03.2002"), stanZDnia |-> JStr("02.10.2026")],
      dane |->
        [t |-> "object",
         dzial1 |->
           [t |-> "object",
            danePodmiotu |-> [t |-> "object", formaPrawna |-> JStr("FUNDACJA"),
                              nazwa |-> JStr("BARE " \o type)]]]]]

\* The same extract, with the time at which the registry made it
StampedBarePayload(krs, type) ==
  [BarePayload(krs, type) EXCEPT
     !.odpis.naglowekA = @ @@ [dataCzasOdpisu |-> JStr("02.10.2026 10:00:00")]]

\* A body that is JSON but not an extract
NoExtract == [t |-> "object", message |-> JStr("maintenance")]

\* An object without the properties named
Without(x, names) == [f \in DOMAIN x \ names |-> x[f]]

\* The parts of an extract that the registry may leave out, besides the capital
OptionalParts ==
  {"identyfikatory", "nrLokalu", "wspolnicySpzoo", "dzial2", "dzial3",
   "przedmiotPozostalejDzialalnosci", "dataCzasOdpisu"}

\* No share capital stated
NoCapital == Null

\* The share capital values of the payloads: Polish decimals, values without
\* a fraction, and values that use the comma for the thousands as well
CapitalValues == {"5000,00", "5000", "5000.00", "1,000,000,00", "50,000,50"}

\* The extract of a company with the optional parts named, the others left
\* out, and with the share capital given
Extract(parts, wartosc) ==
  LET full == FullPayload("0000012345", "aktualny")
      left == OptionalParts \ parts
      dane == full.odpis.dane
      dzial1 == dane.dzial1
      danePodmiotu == Without(dzial1.danePodmiotu, left)
      adres == Without(dzial1.siedzibaIAdres.adres, left)
      kapital ==
        [t |-> "object",
         wysokoscKapitaluZakladowego |->
           [t |-> "object", wartosc |-> JStr(wartosc), waluta |-> JStr("PLN")]]
      przedmiot == Without(dane.dzial3.przedmiotDzialalnosci, left)
  IN [t |-> "object",
      odpis |->
        [t |-> "object",
         rodzaj |-> full.odpis.rodzaj,
         naglowekA |-> Without(full.odpis.naglowekA, left),
         dane |->
           Without(
             [t |-> "object",
              dzial1 |->
                Without(
                  [t |-> "object",
                   danePodmiotu |-> danePodmiotu,
                   siedzibaIAdres |->
                     [t |-> "object", siedziba |-> dzial1.siedzibaIAdres.siedziba,
                      adres |-> adres],
                   kapital |-> kapital,
                   wspolnicySpzoo |-> dzial1.wspolnicySpzoo],
                  left \cup (IF wartosc = NoCapital THEN {"kapital"} ELSE {})),
              dzial2 |-> dane.dzial2,
              dzial3 |-> [t |-> "object", przedmiotDzialalnosci |-> przedmiot]],
             left)]]

\* The ways in which a list of an extract departs from the declared type
Flaws == {"activity null", "activities text", "sklad object", "wspolnicySpzoo object"}

\* The extract with one of its lists replaced by a value that the declared
\* type does not allow: a list that holds null, a string, an object
Flawed(raw, flaw) ==
  CASE flaw = "activity null" ->
         [raw EXCEPT !.odpis.dane.dzial3.przedmiotDzialalnosci
                      .przedmiotPrzewazajacejDzialalnosci = JArr(<<JNull>>)]
    [] flaw = "activities text" ->
         [raw EXCEPT !.odpis.dane.dzial3.przedmiotDzialalnosci
                      .przedmiotPrzewazajacejDzialalnosci = JStr("62.01.Z")]
    [] flaw = "sklad object" ->
         [raw EXCEPT !.odpis.dane.dzial2.reprezentacja.sklad = [t |-> "object"]]
    [] flaw = "wspolnicySpzoo object" ->
         [raw EXCEPT !.odpis.dane.dzial1.wspolnicySpzoo = [t |-> "object"]]
    [] OTHER -> raw

\* The payloads given to transformResponse: every choice of the optional
\* parts without a capital, every capital value with all or none of them,
\* and the full extract with each of the flaws
Payloads ==
  {[parts |-> parts, wartosc |-> NoCapital, flaw |-> "none"] :
     parts \in SUBSET OptionalParts} \cup
  {[parts |-> parts, wartosc |-> w, flaw |-> "none"] :
     parts \in {{}, OptionalParts}, w \in CapitalValues} \cup
  {[parts |-> OptionalParts, wartosc |-> "5000,00", flaw |-> f] : f \in Flaws}

\* The payload that the record p of Payloads describes
PayloadOf(p) == Flawed(Extract(p.parts, p.wartosc), p.flaw)

\* buildPkdCode
BuildPkdCode(item) ==
  JStr(JText(Prop(item, "kodDzial")) \o "." \o JText(Prop(item, "kodKlasa")) \o "." \o
       JText(Prop(item, "kodPodklasa")))

\* s?.imiona?.imie && s?.nazwisko?.nazwisko
HasFullName(s) ==
  /\ Truthy(Opt(Opt(s, "imiona"), "imie"))
  /\ Truthy(Opt(Opt(s, "nazwisko"), "nazwisko"))

\* `${s.imiona.imie} ${s.nazwisko.nazwisko}`
FullName(s) ==
  JStr(JText(Prop(Prop(s, "imiona"), "imie")) \o " " \o
       JText(Prop(Prop(s, "nazwisko"), "nazwisko")))

Shareholder(s) ==
  [t |-> "object", name |-> FullName(s),
   shares |-> Or(Prop(s, "posiadaneUdzialy"), JStr("Brak danych"))]

BoardMember(m) ==
  [t |-> "object", name |-> FullName(m),
   function |-> Or(Prop(m, "funkcjaWOrganie"), JStr("Brak danych"))]

Activity(a) ==
  [t |-> "object", code |-> BuildPkdCode(a), description |-> Prop(a, "opis")]

\* The share capital as the registry states it, when it states one
StatedCapital(raw) ==
  Opt(Prop(Prop(Prop(Prop(raw, "odpis"), "dane"), "dzial1"), "kapital"),
      "wysokoscKapitaluZakladowego")

\* (x || []).filter and (x || []).map throw a TypeError: x is truthy and is
\* not an array
NotAList(x) == Truthy(x) /\ x.t # "array"

\* buildPkdCode throws a TypeError on an element of the list: the list
\* holds null or undefined
HoldsNullish(x) ==
  x.t = "array" /\ \E i \in 1..Len(x.items) : x.items[i].t \in {"undefined", "null"}

\* The lists that transformResponse filters and maps
ListsOf(raw) ==
  LET dane == Prop(Prop(raw, "odpis"), "dane")
      przedmiot == Opt(Opt(dane, "dzial3"), "przedmiotDzialalnosci")
  IN [wspolnicySpzoo |-> Prop(Prop(dane, "dzial1"), "wspolnicySpzoo"),
      sklad |-> Opt(Opt(Opt(dane, "dzial2"), "reprezentacja"), "sklad"),
      main |-> Opt(przedmiot, "przedmiotPrzewazajacejDzialalnosci"),
      other |-> Opt(przedmiot, "przedmiotPozostalejDzialalnosci")]

\* transformResponse as it would be if it read dzial2 and dzial3 without the
\* optional chaining
TransformThrows_Unchained(raw) ==
  \/ Throws(raw)
  \/ Throws(Prop(raw, "odpis"))
  \/ Throws(Prop(Prop(raw, "odpis"), "dane"))
  \/ Throws(Prop(Prop(Prop(raw, "odpis"), "dane"), "dzial1"))
  \/ Throws(Prop(Prop(Prop(raw, "odpis"), "dane"), "dzial2"))
  \/ Throws(Prop(Prop(Prop(raw, "odpis"), "dane"), "dzial3"))

\* transformResponse throws a TypeError: it reads a property of a part that
\* is missing, filters or maps a value that is not an array, builds the code
\* of an activity that is null, or calls replace on a capital value that is
\* not a string
TransformThrows(raw) ==
  \/ Throws(raw)
  \/ Throws(Prop(raw, "odpis"))
  \/ Throws(Prop(Prop(raw, "odpis"), "dane"))
  \/ Throws(Prop(Prop(Prop(raw, "odpis"), "dane"), "dzial1"))
  \/ Throws(Prop(Prop(Prop(Prop(raw, "odpis"), "dane"), "dzial1"), "danePodmiotu"))
  \/ Throws(Prop(Prop(raw, "odpis"), "naglowekA"))
  \/ NotAList(ListsOf(raw).wspolnicySpzoo)
  \/ NotAList(ListsOf(raw).sklad)
  \/ NotAList(ListsOf(raw).main)
  \/ NotAList(ListsOf(raw).other)
  \/ HoldsNullish(ListsOf(raw).main)
  \/ HoldsNullish(ListsOf(raw).other)
  \/ (Truthy(StatedCapital(raw)) /\ Prop(StatedCapital(raw), "wartosc").t # "string")

\* transformResponse, for a payload on which it does not throw; isoNow is what
\* new Date().toISOString() gives at the time of the call
TransformResponse(raw, isoNow) ==
  LET odpis == Prop(raw, "odpis")
      dzial1 == Prop(Prop(odpis, "dane"), "dzial1")
      dzial2 == Prop(Prop(odpis, "dane"), "dzial2")
      dzial3 == Prop(Prop(odpis, "dane"), "dzial3")
      danePodmiotu == Prop(dzial1, "danePodmiotu")
      siedziba == Opt(Opt(dzial1, "siedzibaIAdres"), "siedziba")
      adres == Opt(Opt(dzial1, "siedzibaIAdres"), "adres")
      reprezentacja == Opt(dzial2, "reprezentacja")
      przedmiot == Opt(dzial3, "przedmiotDzialalnosci")
      kapital == StatedCapital(raw)
      named == SelectSeq(ItemsOrNone(Prop(dzial1, "wspolnicySpzoo")), HasFullName)
      shareholders == [i \in 1..Len(named) |-> Shareholder(named[i])]
      sklad == SelectSeq(ItemsOrNone(Opt(reprezentacja, "sklad")), HasFullName)
      boardMembers == [i \in 1..Len(sklad) |-> BoardMember(sklad[i])]
      main == ItemsOrNone(Opt(przedmiot, "przedmiotPrzewazajacejDzialalnosci"))
      mainActivities == [i \in 1..Len(main) |-> Activity(main[i])]
      other == ItemsOrNone(Opt(przedmiot, "przedmiotPozostalejDzialalnosci"))
      otherActivities == [i \in 1..Len(other) |-> Activity(other[i])]
  IN [t |-> "object",
      name |-> Prop(danePodmiotu, "nazwa"),
      krs |-> Prop(Prop(odpis, "naglowekA"), "numerKRS"),
      nip |-> Or(Opt(Prop(danePodmiotu, "identyfikatory"), "nip"), JNull),
      regon |-> Or(Opt(Prop(danePodmiotu, "identyfikatory"), "regon"), JNull),
      legalForm |-> Prop(danePodmiotu, "formaPrawna"),
      address |->
        [t |-> "object",
         city |-> Or(Opt(siedziba, "miejscowosc"), JStr("")),
         voivodeship |-> Or(Opt(siedziba, "wojewodztwo"), JStr("")),
         street |-> Or(Opt(adres, "ulica"), JStr("")),
         building |-> Or(Opt(adres, "nrDomu"), JStr("")),
         unit |-> Or(Opt(adres, "nrLokalu"), JNull),
         postalCode |-> Or(Opt(adres, "kodPocztowy"), JStr("")),
         country |-> Or(Opt(siedziba, "kraj"), JStr("POLSKA"))],
      capital |->
        IF Truthy(kapital)
        THEN [t |-> "object",
              value |-> JStr(Replace(Prop(kapital, "wartosc").v, ",", ".")),
              currency |-> Prop(kapital, "waluta")]
        ELSE JNull,
      shareholders |-> JArr(shareholders),
      representation |->
        [t |-> "object",
         organName |-> Or(Opt(reprezentacja, "nazwaOrganu"), JStr("ZARZ\\u0104D")),
         method |-> Or(Opt(reprezentacja, "sposobReprezentacji"), JStr("Brak danych")),
         members |-> JArr(boardMembers)],
      mainActivity |-> JArr(mainActivities),
      otherActivities |-> JArr(otherActivities),
      registrationDate |-> Prop(Prop(odpis, "naglowekA"), "dataRejestracjiWKRS"),
      lastUpdate |-> Prop(Prop(odpis, "naglowekA"), "stanZDnia"),
      dataTimestamp |-> Or(Prop(Prop(odpis, "naglowekA"), "dataCzasOdpisu"), isoNow)]

\* this.transformResponse(raw): the record returned, or the TypeError thrown
TransformOutcome(raw, isoNow) ==
  IF TransformThrows(raw) THEN Thrown("TypeError") ELSE TransformResponse(raw, isoNow)

\* formatCompanyAsText: the lines that are joined
FormatCompanyAsText(data) ==
  LET addr == data.address
      addressParts ==
        JText(addr.street) \o " " \o JText(addr.building) \o
        (IF Truthy(addr.unit) THEN " lok. " \o JText(addr.unit) ELSE "")
  IN <<"=== " \o JText(data.name) \o " ===", "", "KRS: " \o JText(data.krs)>> \o
     (IF Truthy(data.nip) THEN <<"NIP: " \o JText(data.nip)>> ELSE <<>>) \o
     (IF Truthy(data.regon) THEN <<"REGON: " \o JText(data.regon)>> ELSE <<>>) \o
     <<"Forma prawna: " \o JText(data.legalForm), "",
       "\\ud83d\\udccd Adres:", "   " \o addressParts,
       "   " \o JText(addr.postalCode) \o " " \o JText(addr.city),
       "   " \o JText(addr.voivodeship) \o ", " \o JText(addr.country), "">> \o
     (IF Truthy(data.capital)
      THEN <<"\\ud83d\\udcb0 Kapita\\u0142 zak\\u0142adowy: " \o JText(data.capital.value) \o " " \o
              JText(data.capital.currency), "">>
      ELSE <<>>) \o
     (IF Len(data.representation.members.items) > 0
      THEN <<"\\ud83d\\udc65 " \o JText(data.representation.organName) \o ":">> \o
           [i \in 1..Len(data.representation.members.items) |->
              "   \\u2022 " \o JText(data.representation.members.items[i].name) \o " - " \o
              JText(data.representation.members.items[i].function)] \o
           <<"">>
      ELSE <<>>) \o
     (IF Len(data.mainActivity.items) > 0
      THEN <<"\\ud83c\\udfed Dzia\\u0142alno\\u015b\\u0107 przewa\\u017caj\\u0105ca:">> \o
           [i \in 1..Len(data.mainActivity.items) |->
              "   \\u2022 " \o JText(data.mainActivity.items[i].code) \o " - " \o
              JText(data.mainActivity.items[i].description)] \o
           <<"">>
      ELSE <<>>) \o
     <<"\\ud83d\\udcc5 Data rejestracji: " \o JText(data.registrationDate),
       "\\ud83d\\udcc5 Stan na dzie\\u0144: " \o JText(data.lastUpdate)>>

(***************************************************************************)
(* CACHE_KV: a key-value store whose entries expire.  An entry is live     *)
(* until expirationTtl seconds after it was put.                           *)
(***************************************************************************)
\* expirationTtl of the entries getCompany stores (the program uses
\* CACHE_TTL_SECONDS = 3600; the model scales the lifetime down)
CacheTtl == 2
\* Largest reading of the clock, in seconds
MaxClock == 3
\* The number of view_company calls in a run
MaxLookups == 2

KvLive(e, t) == t < e.storedAt + e.ttl

\* KV.get: the text stored under the key, null when there is none or it has expired
KvGet(store, key, t) ==
  IF \E e \in store : e.key = key /\ KvLive(e, t)
  THEN (CHOOSE e \in store : e.key = key /\ KvLive(e, t)).value
  ELSE JNull

\* KV.put with expirationTtl: the entry replaces the one stored under the key
KvPut(store, key, value, ttl, t) ==
  {e \in store : e.key # key} \cup {[key |-> key, value |-> value, storedAt |-> t, ttl |-> ttl]}

\* history: the age of the entry stored under the key, -1 when there is none
AgeOf(store, key, t) ==
  IF \E e \in store : e.key = key
  THEN t - (CHOOSE e \in store : e.key = key).storedAt
  ELSE -1

\* history: what the cache holds under the key when a call looks it up: no
\* entry, or one younger than the lifetime, as old as it, or older
Saw(store, key, t) ==
  LET age == AgeOf(store, key, t)
  IN CASE age = -1 -> "absent"
       [] age >= 0 /\ age < CacheTtl -> "fresh"
       [] age = CacheTtl -> "due"
       [] OTHER -> "old"

(***************************************************************************)
(* KrsClient.getCompany                                                    *)
(***************************************************************************)
\* The key as it would be without the extract type
CacheKey_NoType(krs, type) == "krs:" \o krs

\* `krs:${krs}:${type}`
CacheKey(krs, type) == "krs:" \o krs \o ":" \o type

\* return JSON.parse(cached)
ReadCached(cached) == Parse(cached)

\* The check of the cache as it would be if the cache were never read
GetCompanyLookup_Skipped(store, krs, type, t) == [hit |-> FALSE, data |-> JUndef]

\* The check of the cache: whether getCompany returns from it, and what
GetCompanyLookup(store, krs, type, t) ==
  LET cached == KvGet(store, CacheKey(krs, type), t)
  IN IF Truthy(cached)
     THEN [hit |-> TRUE, data |-> ReadCached(cached)]
     ELSE [hit |-> FALSE, data |-> JUndef]

\* The cache after a hit as it would be if a hit stored the entry again
StoreAfterHit_Refresh(store, krs, type, cached, t) ==
  KvPut(store, CacheKey(krs, type), cached, CacheTtl, t)

\* The cache after a hit: getCompany returns without writing
StoreAfterHit(store, krs, type, cached, t) == store

\* response.ok
ResponseOk(status) == status >= 200 /\ status <= 299

\* getCompany as it would be without its branch for the status 404
GetCompanyFetched_No404(answer, krs, isoNow) ==
  CASE answer.kind = "timeout" ->
         [kind |-> "failure", message |-> "KRS API timeout - please try again",
          data |-> JUndef]
    [] answer.kind = "network" ->
         [kind |-> "failure", message |-> "KRS API unavailable - please try again later",
          data |-> JUndef]
    [] answer.kind = "response" /\ ~ResponseOk(answer.status) ->
         [kind |-> "failure",
          message |-> IF answer.status = 400
                      THEN "Invalid KRS number format: " \o krs
                      ELSE "KRS API error: " \o ToString(answer.status),
          data |-> JUndef]
    [] answer.kind = "response" /\ ResponseOk(answer.status) /\ answer.body.t = "invalid" ->
         [kind |-> "failure", message |-> "Unexpected token", data |-> JUndef]
    [] answer.kind = "response" /\ ResponseOk(answer.status) /\ answer.body.t # "invalid"
         /\ TransformThrows(answer.body) ->
         [kind |-> "failure", message |-> "Cannot read properties of undefined",
          data |-> JUndef]
    [] OTHER ->
         [kind |-> "record", message |-> "",
          data |-> TransformResponse(answer.body, isoNow)]

\* What getCompany makes of the registry's answer: the message of the Error
\* it throws, or the transformed record.  answer.kind tells whether fetch
\* resolved with a response, was aborted by the timeout or failed otherwise.
GetCompanyFetched(answer, krs, isoNow) ==
  CASE answer.kind = "timeout" ->
         [kind |-> "failure", message |-> "KRS API timeout - please try again",
          data |-> JUndef]
    [] answer.kind = "network" ->
         [kind |-> "failure", message |-> "KRS API unavailable - please try again later",
          data |-> JUndef]
    [] answer.kind = "response" /\ ~ResponseOk(answer.status) ->
         [kind |-> "failure",
          message |-> IF answer.status = 404
                      THEN "Company with KRS " \o krs \o " not found in registry"
                      ELSE IF answer.status = 400
                      THEN "Invalid KRS number format: " \o krs
                      ELSE "KRS API error: " \o ToString(answer.status),
          data |-> JUndef]
    [] answer.kind = "response" /\ ResponseOk(answer.status) /\ answer.body.t = "invalid" ->
         [kind |-> "failure", message |-> "Unexpected token", data |-> JUndef]
    [] answer.kind = "response" /\ ResponseOk(answer.status) /\ answer.body.t # "invalid"
         /\ TransformThrows(answer.body) ->
         [kind |-> "failure", message |-> "Cannot read properties of undefined",
          data |-> JUndef]
    [] OTHER ->
         [kind |-> "record", message |-> "",
          data |-> TransformResponse(answer.body, isoNow)]

\* The store as it would be if getCompany returned without storing the record
GetCompanyStore_Dropped(store, krs, type, data, t) == store

\* The store as it would be if the entry were put without a lifetime
GetCompanyStore_NoExpiry(store, krs, type, data, t) ==
  KvPut(store, CacheKey(krs, type), Stringify(data), 1000000, t)

\* The store as it would be if an entry that is still live were kept
GetCompanyStore_KeepLive(store, krs, type, data, t) ==
  IF Truthy(KvGet(store, CacheKey(krs, type), t)) THEN store
  ELSE KvPut(store, CacheKey(krs, type), Stringify(data), CacheTtl, t)

\* CACHE_KV.put(cacheKey, JSON.stringify(data), {expirationTtl: CACHE_TTL_SECONDS})
GetCompanyStore(store, krs, type, data, t) ==
  KvPut(store, CacheKey(krs, type), Stringify(data), CacheTtl, t)

(***************************************************************************)
(* The view_company tool of the OAuth lane's server                        *)
(***************************************************************************)
\* const { krs, type = "aktualny" } = args
TypeOrDefault(type) == IF type = Undefined THEN "aktualny" ELSE type

\* !this.props?.userId
NoUserId(userId) == userId = Null \/ userId = Undefined \/ userId = ""

NextSteps ==
  <<"", "Next steps: Ask follow-up questions about this company's board, capital, or activities. For full historical data, call view_company again with type 'pelny'.">>

\* The handler as it would be if it let the failure of getCompany through
ViewCompanyResult_Rethrows(outcome, krs) ==
  IF outcome.kind = "record"
  THEN [t |-> "object",
        content |-> <<[type |-> "text",
                       text |-> FormatCompanyAsText(outcome.data) \o NextSteps]>>,
        structuredContent |-> outcome.data,
        isError |-> JUndef]
  ELSE Thrown(outcome.message)

\* What the handler returns for the outcome of getCompany
ViewCompanyResult(outcome, krs) ==
  IF outcome.kind = "record"
  THEN [t |-> "object",
        content |-> <<[type |-> "text",
                       text |-> FormatCompanyAsText(outcome.data) \o NextSteps]>>,
        structuredContent |-> outcome.data,
        isError |-> JUndef]
  ELSE [t |-> "object",
        content |-> <<[type |-> "text",
                       text |-> <<"Error looking up KRS " \o krs \o ": " \o
                                  outcome.message>>]>>,
        structuredContent |-> JUndef,
        isError |-> JTrue]

\* What the OAuth lane's server registers in init()
RESOURCE_URI == "ui://krs-viewer/company-card.html"
RegisteredResources == {"company_card"}
RegisteredTools == {"view_company"}
RegisteredPrompts == {"lookup-company"}

\* Nothing is registered: the server of an agent before init()
NothingRegistered == [resources |-> {}, tools |-> {}, prompts |-> {}]

\* The log records that init() writes
InitLog ==
  <<[event |-> "ui_resource_registered", uri |-> RESOURCE_URI, name |-> "company_card"],
    [event |-> "server_started", auth_mode |-> "dual"]>>

\* The registry's answers to a request for the extract of krs
NoAnswer == [kind |-> "none", status |-> 0, body |-> JUndef]

RegistryAnswers(krs, type) ==
  {[kind |-> "response", status |-> 200, body |-> b] :
     b \in {FullPayload(krs, type), StampedBarePayload(krs, type), NoExtract, InvalidJson}} \cup
  {[kind |-> "response", status |-> s, body |-> JUndef] : s \in {404, 400, 503}} \cup
  {[kind |-> k, status |-> 0, body |-> JUndef] : k \in {"timeout", "network"}}

NoOutcome == [kind |-> "none", message |-> "", data |-> JUndef]

\* No call: the value of ended when the last step ended none
IdleCall ==
  [pc |-> "idle", userId |-> Null, email |-> Null, krs |-> "", type |-> "",
   saw |-> "none", age |-> -1, hit |-> FALSE,
   answer |-> NoAnswer, prior |-> JNull, stored |-> FALSE, outcome |-> NoOutcome,
   result |-> JUndef, steps |-> <<>>]

\* x ?? ""
OrEmpty(x) == IF x = Null \/ x = Undefined THEN "" ELSE x

\* The log record that the handler writes before it calls getCompany
ToolStarted(q) ==
  <<[event |-> "tool_started", tool |-> "view_company", user_id |-> OrEmpty(q.userId),
     user_email |-> OrEmpty(q.email), action_id |-> q.krs,
     args |-> [krs |-> q.krs, type |-> q.type]]>>

\* The log record that the handler writes when getCompany has returned,
\* without its duration_ms, the time that the call has taken
ToolCompleted(q) ==
  <<[event |-> "tool_completed", tool |-> "view_company", user_id |-> OrEmpty(q.userId),
     user_email |-> OrEmpty(q.email), action_id |-> q.krs]>>

\* The log record that the catch block of the handler writes
ToolFailed(message) ==
  <<[event |-> "tool_failed", tool |-> "view_company", error |-> message]>>

\* The log records that the handler writes when the call ends
EndLog(q) ==
  IF q.outcome.kind = "record" THEN ToolCompleted(q) ELSE ToolFailed(q.outcome.message)

\* The call ends with the Error that getCompany threw
Failed(q, message) ==
  LET o == [kind |-> "failure", message |-> message, data |-> JUndef]
  IN [q EXCEPT !.pc = "done", !.outcome = o, !.result = ViewCompanyResult(o, q.krs)]

\* The messages of the Errors with which CACHE_KV.get and CACHE_KV.put reject
KvGetError == "KV GET failed: 500 Internal Server Error"
KvPutError == "KV PUT failed: 429 Too Many Requests"

\* getCompany when CACHE_KV.get has answered: it returns the cached record,
\* which ends the call, or calls fetch
LookupSettled(q, store, t) ==
  LET found == GetCompanyLookup(store, q.krs, q.type, t)
      seen == [q EXCEPT !.saw = Saw(store, CacheKey(q.krs, q.type), t)]
      o == [kind |-> "record", message |-> "", data |-> found.data]
  IN IF found.hit
     THEN [seen EXCEPT !.pc = "done", !.hit = TRUE,
                       !.age = AgeOf(store, CacheKey(q.krs, q.type), t),
                       !.outcome = o, !.result = ViewCompanyResult(o, q.krs)]
     ELSE [seen EXCEPT !.pc = "fetch", !.steps = Append(@, "fetch")]

\* What fetch has settled with, before the body is read
Settled(answer) == [answer EXCEPT !.body = JUndef]

\* getCompany from the settling of fetch as it would be if a request that
\* timed out were sent again
FetchSettled_Retries(q, answer) ==
  IF answer.kind = "timeout" /\ Len(q.steps) < 4
  THEN [q EXCEPT !.steps = Append(@, "fetch")]
  ELSE IF answer.kind = "response" /\ ResponseOk(answer.status)
  THEN [q EXCEPT !.pc = "json", !.answer = Settled(answer), !.steps = Append(@, "json")]
  ELSE [Failed(q, GetCompanyFetched(answer, q.krs, JUndef).message)
          EXCEPT !.answer = Settled(answer)]

\* getCompany from the settling of fetch to the Error it throws, which ends
\* the call, or to its call of response.json(); steps is the history of
\* what the call has done
FetchSettled(q, answer) ==
  IF answer.kind = "response" /\ ResponseOk(answer.status)
  THEN [q EXCEPT !.pc = "json", !.answer = Settled(answer), !.steps = Append(@, "json")]
  ELSE [Failed(q, GetCompanyFetched(answer, q.krs, JUndef).message)
          EXCEPT !.answer = Settled(answer)]

\* getCompany from the settling of response.json() to the Error that is
\* thrown, which ends the call, or to its call of CACHE_KV.put
BodySettled(q, answer, isoNow) ==
  LET o == GetCompanyFetched(answer, q.krs, isoNow)
  IN IF o.kind = "failure"
     THEN [Failed(q, o.message) EXCEPT
             !.answer = answer,
             !.steps = IF answer.body.t = "invalid" THEN @ ELSE Append(@, "transform")]
     ELSE [q EXCEPT !.pc = "put", !.answer = answer, !.outcome = o,
                    !.steps = @ \o <<"transform", "put">>]

\* The arguments of the calls: a KRS number and, when given, the extract type
ViewCompanyArgs ==
  {[krs |-> "0000012345", type |-> Undefined], [krs |-> "0000012345", type |-> "aktualny"],
   [krs |-> "0000012345", type |-> "pelny"], [krs |-> "0000067890", type |-> Undefined]}
\* this.props of the calls: an authenticated user, and none
Users == {[userId |-> "u1", email |-> "u1@example.com"], [userId |-> Null, email |-> Null]}

\* No payload given to transformResponse yet
NotApplied ==
  [pc |-> "idle", parts |-> {}, wartosc |-> NoCapital, flaw |-> "none", first |-> JUndef, firstAt |-> -1,
   second |-> JUndef, secondAt |-> -1]

(***************************************************************************)
(* The cache driven directly: any get, set and has, at any clock reading.  *)
(***************************************************************************)
Init ==
  /\ cache = <<>>
  /\ recency = <<>>
  /\ now = 0
  /\ emitted = <<>>
  /\ ret = [op |-> "none", key |-> Undefined, result |-> Undefined]
  /\ reqs = EmptyBag
  /\ created = [u \in Identities |-> 0]
  /\ evictions = [u \in Identities |-> 0]
  /\ arrivals = 0
  /\ sent = IdleRequest
  /\ routed = [pathname |-> Null, authHeader |-> Null, lane |-> "none"]
  /\ rpc = [pc |-> "idle", body |-> JUndef, userId |-> Null, assetOk |-> TRUE,
            response |-> JUndef, handler |-> "none"]
  /\ clock = 0
  /\ kv = {}
  /\ calls = EmptyBag
  /\ lookups = 0
  /\ written = {}
  /\ ended = IdleCall
  /\ registered = NothingRegistered
  /\ applied = NotApplied

\* Date.now() moves on
Tick ==
  /\ now < MaxTime
  /\ now' = now + 1
  /\ emitted' = <<>>
  /\ sent' = IdleRequest
  /\ UNCHANGED <<cache, recency, ret, reqs, created, evictions, arrivals, routed, rpc, krsVars>>

Get(key) ==
  /\ cache' = LRUGetCache(cache, key, now)
  /\ ret' = [op |-> "get", key |-> key, result |-> LRUGetValue(cache, key)]
  /\ recency' = IF MapHas(cache, key) THEN Touched(recency, key, cache') ELSE recency
  /\ emitted' = <<>>
  /\ UNCHANGED <<now, serverVars, routed, rpc, krsVars>>

Set(key, value) ==
  LET r == LRUSet(cache, key, value, now, MaxSize) IN
  /\ cache' = r.cache
  /\ emitted' = r.log
  /\ recency' = Touched(recency, key, r.cache)
  /\ ret' = [op |-> "set", key |-> key, result |-> Undefined]
  /\ UNCHANGED <<now, serverVars, routed, rpc, krsVars>>

Has(key) ==
  /\ ret' = [op |-> "has", key |-> key, result |-> LRUHas(cache, key)]
  /\ emitted' = <<>>
  /\ UNCHANGED <<cache, recency, now, serverVars, routed, rpc, krsVars>>

NextLRU ==
  \/ Tick
  \/ \E key \in CacheKeys : Get(key)
  \/ \E key \in CacheKeys, value \in CacheValues : Set(key, value)
  \/ \E key \in CacheKeys : Has(key)

SpecLRU == Init /\ [][NextLRU]_vars

(***************************************************************************)
(* The server: requests arrive through the router or call the exported     *)
(* handler, and run interleaved at their awaits.                           *)
(***************************************************************************)
InFlight == BagToSet(reqs)

\* handleApiKeyRequest up to its first await
Enter(via, authHeader) ==
  LET apiKey == ExtractApiKey(authHeader)
      arrived == [IdleRequest EXCEPT !.via = via, !.authHeader = authHeader]
  IN IF MissingApiKey(apiKey)
     THEN [arrived EXCEPT !.pc = "done", !.status = 401,
                          !.error = "Missing Authorization header"]
     ELSE [arrived EXCEPT !.pc = "validating", !.apiKey = apiKey]

\* A request arrives and runs to its first await, or to its answer
Arrive(next) ==
  IF next.pc = "done"
  THEN reqs' = reqs /\ sent' = next
  ELSE reqs' = reqs (+) SetToBag({next}) /\ sent' = IdleRequest

\* The request q goes on as next, to its next await or to its answer: a
\* request that has been answered is kept in sent
Proceed(q, next) ==
  IF next.pc = "done"
  THEN reqs' = reqs (-) SetToBag({q}) /\ sent' = next
  ELSE reqs' = (reqs (-) SetToBag({q})) (+) SetToBag({next}) /\ sent' = IdleRequest

\* fetch: the router hands the request to the key-based lane or to the OAuth provider
Fetch ==
  /\ arrivals < MaxRequests
  /\ BagCardinality(reqs) < MaxInFlight
  /\ \E r \in ServerRequests :
       /\ IF IsApiKeyRequest(r.pathname, r.authHeader)
          THEN Arrive([Enter("fetch", r.authHeader) EXCEPT !.pathname = r.pathname])
          ELSE Arrive([IdleRequest EXCEPT !.pc = "provider", !.via = "oauth",
                                          !.pathname = r.pathname,
                                          !.authHeader = r.authHeader])
       /\ emitted' = FetchLog(r.pathname, r.authHeader)
  /\ arrivals' = arrivals + 1
  /\ UNCHANGED <<cache, recency, now, ret, created, evictions, routed, rpc, krsVars>>

\* The promise of oauthProvider.fetch resolves: its response is the answer
ProviderResponds(q) ==
  /\ q.pc = "provider"
  /\ Proceed(q, [q EXCEPT !.pc = "done", !.auth = "provider"])
  /\ emitted' = <<>>
  /\ UNCHANGED <<cache, recency, now, ret, created, evictions, arrivals, routed, rpc, krsVars>>

\* The promise of oauthProvider.fetch rejects: the catch block of fetch
\* answers 500
ProviderThrows(q) ==
  /\ q.pc = "provider"
  /\ \E error \in ProviderErrors :
       LET caught == FetchCatch(error)
       IN /\ Proceed(q, [q EXCEPT !.pc = "done", !.auth = "threw",
                                  !.status = caught.status, !.error = caught.error])
          /\ emitted' = caught.log
  /\ UNCHANGED <<cache, recency, now, ret, created, evictions, arrivals, routed, rpc, krsVars>>

\* handleApiKeyRequest called by another module, with any request; the
\* pathname it is given is looked at after authentication only
Call ==
  /\ arrivals < MaxRequests
  /\ BagCardinality(reqs) < MaxInFlight
  /\ \E authHeader \in DirectAuthHeaders : Arrive(Enter("call", authHeader))
  /\ emitted' = <<>>
  /\ arrivals' = arrivals + 1
  /\ UNCHANGED <<cache, recency, now, ret, created, evictions, routed, rpc, krsVars>>

\* validateApiKey throws: the catch block answers 500
ValidationFails(q) ==
  /\ q.pc = "validating"
  /\ LET caught == ApiKeyCatch(ErrorOf("Error", "D1_ERROR"))
     IN /\ Proceed(q, [q EXCEPT !.pc = "done", !.status = caught.status, !.auth = "threw",
                                !.error = caught.error])
        /\ emitted' = caught.log
  /\ UNCHANGED <<cache, recency, now, ret, created, evictions, arrivals, routed, rpc, krsVars>>

\* validateApiKey answers null: 401
Reject(q) ==
  /\ q.pc = "validating"
  /\ ValidateApiKey(q.apiKey) = NoUser
  /\ Proceed(q, [q EXCEPT !.pc = "done", !.status = 401, !.auth = "rejected",
                          !.error = "Invalid or expired API key"])
  /\ emitted' = AuthFailureLog(q.apiKey)
  /\ UNCHANGED <<cache, recency, now, ret, created, evictions, arrivals, routed, rpc, krsVars>>

\* validateApiKey answers a user: getOrCreateServer runs to its end without an await
Authenticate(q) ==
  /\ q.pc = "validating"
  /\ ValidateApiKey(q.apiKey) # NoUser
  /\ LET user == ValidateApiKey(q.apiKey)
         g == GetOrCreateServer(cache, user.userId, now, created[user.userId] + 1, MaxSize)
         gone == Keys(cache) \ Keys(g.cache)
     IN /\ cache' = g.cache
        /\ recency' = Touched(recency, user.userId, g.cache)
        /\ created' = IF g.constructed
                      THEN [created EXCEPT ![user.userId] = @ + 1] ELSE created
        /\ evictions' = [u \in Identities |-> IF u \in gone THEN evictions[u] + 1
                                             ELSE evictions[u]]
        /\ emitted' = AuthSuccessLog(user) \o g.log
        /\ Proceed(q, [q EXCEPT !.pc = "transport", !.userId = user.userId,
                                !.email = user.email, !.server = g.server,
                                !.auth = "accepted",
                                !.usedCache = TRUE])
  /\ UNCHANGED <<now, ret, arrivals, routed, rpc, krsVars>>

\* validateApiKey answers a user whose server is not cached, and the
\* construction of the server throws before serverCache.set: the promise of
\* getOrCreateServer is rejected and the request waits at its await
ConstructionThrows(q) ==
  /\ q.pc = "validating"
  /\ ValidateApiKey(q.apiKey) # NoUser
  /\ ~MapHas(cache, ValidateApiKey(q.apiKey).userId)
  /\ LET user == ValidateApiKey(q.apiKey)
     IN /\ emitted' = AuthSuccessLog(user)
        /\ Proceed(q, [q EXCEPT !.pc = "rejected", !.userId = user.userId,
                                !.email = user.email, !.auth = "accepted",
                                !.usedCache = TRUE])
  /\ UNCHANGED <<cache, recency, now, ret, created, evictions, arrivals, routed, rpc, krsVars>>

\* The rejection of getOrCreateServer is delivered: the catch block answers 500
ConstructionFails(q) ==
  /\ q.pc = "rejected"
  /\ LET caught == ApiKeyCatch(ErrorOf("Error", "SERVER_INIT_ERROR"))
     IN /\ emitted' = caught.log
        /\ Proceed(q, [q EXCEPT !.pc = "done", !.status = caught.status,
                                !.error = caught.error])
  /\ UNCHANGED <<cache, recency, now, ret, created, evictions, arrivals, routed, rpc, krsVars>>

\* The endpoint check, and handleHTTPTransport up to `await request.json()`;
\* the router lets only "/mcp" through
Transport(q) ==
  /\ q.pc = "transport"
  /\ \E pathname \in IF q.via = "fetch" THEN {q.pathname} ELSE DirectPathnames :
       IF pathname = "/mcp"
       THEN Proceed(q, [q EXCEPT !.pc = "reading", !.pathname = pathname])
       ELSE Proceed(q, [q EXCEPT !.pc = "done", !.status = 400,
                                 !.pathname = pathname,
                                 !.error = "Invalid endpoint. Use /mcp"])
  /\ emitted' = <<>>
  /\ UNCHANGED <<cache, recency, now, ret, created, evictions, arrivals, routed, rpc, krsVars>>

\* request.json() settles: the marker check and the switch on the method,
\* and the handler answers (no body of ServerBodies reads the widget's HTML)
Respond(q) ==
  /\ q.pc = "reading"
  /\ \E body \in ServerBodies :
       /\ ~AwaitsAsset(body)
       /\ LET d == HandleHTTPTransport(body, q.userId, TRUE, now)
          IN Proceed(q, [q EXCEPT !.pc = "done", !.status = 200, !.body = body,
                                  !.response = d.response, !.handler = d.handler])
  /\ emitted' = <<>>
  /\ UNCHANGED <<cache, recency, now, ret, created, evictions, arrivals, routed, rpc, krsVars>>

Next ==
  \/ Tick
  \/ Fetch
  \/ Call
  \/ \E q \in InFlight : ValidationFails(q)
  \/ \E q \in InFlight : Reject(q)
  \/ \E q \in InFlight : Authenticate(q)
  \/ \E q \in InFlight : ConstructionThrows(q)
  \/ \E q \in InFlight : ConstructionFails(q)
  \/ \E q \in InFlight : Transport(q)
  \/ \E q \in InFlight : Respond(q)
  \/ \E q \in InFlight : ProviderResponds(q)
  \/ \E q \in InFlight : ProviderThrows(q)

Spec == Init /\ [][Next]_vars

(***************************************************************************)
(* The router alone, over paths and Authorization headers of many shapes.  *)
(***************************************************************************)
Pathnames == {"/mcp", "/", "/mcp/", "/MCP", "/sse", "/authorize", "/token", "/register"}
AuthHeaders ==
  {Null, "", "Bearer ", "Bearer wtyk_", "Bearer wtyk_u1", "Bearer wtyk_revoked",
   "bearer wtyk_u1", "Bearer  wtyk_u1", "wtyk_u1", "Bearer abc", "Bearer Wtyk_u1",
   "Basic wtyk_u1", "Bearer wtyk", "wBearer tyk_u1", "Bearer Bearer wtyk_u1",
   "Bearer xwtyk_u1", "wtyk_Bearer u1"}

Route ==
  /\ \E pathname \in Pathnames, authHeader \in AuthHeaders :
       /\ routed' = [pathname |-> pathname, authHeader |-> authHeader,
                     lane |-> FetchLane(pathname, authHeader)]
       /\ emitted' = FetchLog(pathname, authHeader)
  /\ UNCHANGED <<cache, recency, now, ret, serverVars, rpc, krsVars>>

NextRouter == Route

SpecRouter == Init /\ [][NextRouter]_vars

(***************************************************************************)
(* The dispatcher alone, over bodies of many shapes.                       *)
(***************************************************************************)
Methods ==
  {"initialize", "ping", "tools/list", "tools/call", "resources/list", "resources/read",
   "prompts/list"}

Markers == {JStr("2.0"), JStr("1.0"), JNum("2.0"), JUndef}
Ids == {JNum("1"), JStr("error"), JUndef}
MethodValues ==
  {JStr(m) : m \in Methods} \cup
  {JStr("no-such-method"), JStr("Ping"), JUndef}
ParamValues ==
  { JUndef,
    [t |-> "object", name |-> JStr("example-tool"),
     arguments |-> [t |-> "object", input |-> JStr("abc")]],
    [t |-> "object", name |-> JStr("example-tool"),
     arguments |-> [t |-> "object", input |-> JFalse]],
    [t |-> "object", name |-> JStr("view_company"),
     arguments |-> [t |-> "object", krs |-> JStr("0000012345")]],
    [t |-> "object", uri |-> JStr(WidgetUri)],
    [t |-> "object", uri |-> JStr("ui://other/widget")] }

Bodies ==
  {InvalidJson, JNull, JNum("42"), JStr("ping"), [t |-> "array"], JTrue, JFalse} \cup
  {Envelope(jsonrpc, id, method, params) :
     jsonrpc \in Markers, id \in Ids, method \in MethodValues, params \in ParamValues}

\* handleHTTPTransport is called and runs to `await request.json()`
HandleTransport ==
  /\ rpc.pc \in {"idle", "done"}
  /\ \E userId \in {"u1"} :
       rpc' = [pc |-> "reading", body |-> JUndef, userId |-> userId, assetOk |-> TRUE,
               response |-> JUndef, handler |-> "none"]
  /\ UNCHANGED <<cache, recency, now, emitted, ret, serverVars, routed, krsVars>>

\* request.json() settles: the marker check and the switch on the method;
\* the handler answers, or handleResourcesRead waits for the widget's HTML
Dispatch ==
  /\ rpc.pc = "reading"
  /\ \E body \in Bodies :
       IF AwaitsAsset(body)
       THEN rpc' = [rpc EXCEPT !.pc = "loading", !.body = body,
                               !.handler = "handleResourcesRead"]
       ELSE LET d == HandleHTTPTransport(body, rpc.userId, TRUE, now)
            IN rpc' = [rpc EXCEPT !.pc = "done", !.body = body,
                                  !.response = d.response, !.handler = d.handler]
  /\ UNCHANGED <<cache, recency, now, emitted, ret, serverVars, routed, krsVars>>

\* loadHtml settles: handleResourcesRead answers with the HTML, or the catch
\* block of handleHTTPTransport answers
AssetLoaded ==
  /\ rpc.pc = "loading"
  /\ \E assetOk \in BOOLEAN :
       LET d == HandleHTTPTransport(rpc.body, rpc.userId, assetOk, now)
       IN rpc' = [rpc EXCEPT !.pc = "done", !.assetOk = assetOk,
                             !.response = d.response, !.handler = d.handler]
  /\ UNCHANGED <<cache, recency, now, emitted, ret, serverVars, routed, krsVars>>

NextDispatch ==
  \/ Tick
  \/ HandleTransport
  \/ Dispatch
  \/ AssetLoaded

SpecDispatch == Init /\ [][NextDispatch]_vars

(***************************************************************************)
(* The view_company tool: calls arrive, wait for CACHE_KV and the registry *)
(* at their awaits, and run interleaved while the clock moves on.          *)
(***************************************************************************)
Waiting == BagToSet(calls)

\* A second passes
ClockTick ==
  /\ clock < MaxClock
  /\ clock' = clock + 1
  /\ ended' = IdleCall
  /\ emitted' = <<>>
  /\ UNCHANGED <<cache, recency, now, ret, serverVars, routed, rpc, kv, calls, lookups,
                 written, registered, applied>>

\* KrsViewer.init(), which is called once on a new agent, before any call of
\* a tool: it registers the resource, the tool and the prompt and writes
\* its two log records; it has no await
AgentInit ==
  /\ registered = NothingRegistered
  /\ registered' = [resources |-> RegisteredResources, tools |-> RegisteredTools,
                    prompts |-> RegisteredPrompts]
  /\ emitted' = InitLog
  /\ ended' = IdleCall
  /\ UNCHANGED <<cache, recency, now, ret, serverVars, routed, rpc, clock, kv, calls, lookups,
                 written, applied>>

\* view_company is called: the check of the user, the log record and
\* getCompany up to `await this.env.CACHE_KV.get(cacheKey)`
ViewCompany ==
  /\ "view_company" \in registered.tools
  /\ lookups < MaxLookups
  /\ BagCardinality(calls) < MaxInFlight
  /\ \E props \in Users, args \in ViewCompanyArgs :
       LET call == [IdleCall EXCEPT !.userId = props.userId, !.email = props.email,
                                    !.krs = args.krs, !.type = TypeOrDefault(args.type)]
       IN IF NoUserId(props.userId)
          THEN /\ ended' = [call EXCEPT !.pc = "done",
                               !.result = Thrown("User ID not found in authentication context")]
               /\ calls' = calls
               /\ emitted' = <<>>
          ELSE /\ calls' = calls (+) SetToBag({[call EXCEPT !.pc = "get",
                                                           !.steps = <<"get">>]})
               /\ ended' = IdleCall
               /\ emitted' = ToolStarted(call)
  /\ lookups' = lookups + 1
  /\ UNCHANGED <<cache, recency, now, ret, serverVars, routed, rpc, clock, kv, written,
                 registered, applied>>

\* The call q goes on as next, to its next await or to its end
Resume(q, next) ==
  IF next.pc = "done"
  THEN /\ calls' = calls (-) SetToBag({q})
       /\ ended' = next
       /\ emitted' = EndLog(next)
  ELSE /\ calls' = (calls (-) SetToBag({q})) (+) SetToBag({next})
       /\ ended' = IdleCall
       /\ emitted' = <<>>

\* CACHE_KV.get answers: getCompany returns the cached record, or calls fetch
Looked(q) ==
  /\ q.pc = "get"
  /\ Resume(q, LookupSettled(q, kv, clock))
  /\ kv' = IF LookupSettled(q, kv, clock).hit
           THEN StoreAfterHit(kv, q.krs, q.type, KvGet(kv, CacheKey(q.krs, q.type), clock),
                              clock)
           ELSE kv
  /\ UNCHANGED <<cache, recency, now, ret, serverVars, routed, rpc, clock, lookups, written,
                 registered, applied>>

\* CACHE_KV.get rejects: getCompany throws and the handler's catch answers
GetRejected(q) ==
  /\ q.pc = "get"
  /\ Resume(q, Failed(q, KvGetError))
  /\ UNCHANGED <<cache, recency, now, ret, serverVars, routed, rpc, clock, kv, lookups,
                 written, registered, applied>>

\* fetch settles: getCompany throws, or calls response.json()
Fetched(q) ==
  /\ q.pc = "fetch"
  /\ \E answer \in RegistryAnswers(q.krs, q.type) : Resume(q, FetchSettled(q, answer))
  /\ UNCHANGED <<cache, recency, now, ret, serverVars, routed, rpc, clock, kv, lookups,
                 written, registered, applied>>

\* response.json() settles: it rejects, transformResponse throws, or
\* getCompany transforms the body and calls CACHE_KV.put
BodyRead(q) ==
  /\ q.pc = "json"
  /\ \E answer \in RegistryAnswers(q.krs, q.type) :
       /\ Settled(answer) = q.answer
       /\ Resume(q, BodySettled(q, answer, ToISOString(clock)))
  /\ UNCHANGED <<cache, recency, now, ret, serverVars, routed, rpc, clock, kv, lookups,
                 written, registered, applied>>

\* CACHE_KV.put completes: getCompany returns the record and the handler its result
Stored(q) ==
  /\ q.pc = "put"
  /\ kv' = GetCompanyStore(kv, q.krs, q.type, q.outcome.data, clock)
  /\ written' = {w \in written : w.key # CacheKey(q.krs, q.type)} \cup
                {[key |-> CacheKey(q.krs, q.type), record |-> q.outcome.data]}
  /\ Resume(q, [q EXCEPT !.pc = "done", !.stored = TRUE,
                         !.prior = KvGet(kv, CacheKey(q.krs, q.type), clock),
                         !.result = ViewCompanyResult(q.outcome, q.krs)])
  /\ UNCHANGED <<cache, recency, now, ret, serverVars, routed, rpc, clock, lookups, registered,
                 applied>>

\* CACHE_KV.put rejects: getCompany throws and the handler's catch answers
PutRejected(q) ==
  /\ q.pc = "put"
  /\ Resume(q, Failed(q, KvPutError))
  /\ UNCHANGED <<cache, recency, now, ret, serverVars, routed, rpc, clock, kv, lookups,
                 written, registered, applied>>

NextKrs ==
  \/ ClockTick
  \/ AgentInit
  \/ ViewCompany
  \/ \E q \in Waiting : Looked(q)
  \/ \E q \in Waiting : GetRejected(q)
  \/ \E q \in Waiting : Fetched(q)
  \/ \E q \in Waiting : BodyRead(q)
  \/ \E q \in Waiting : Stored(q)
  \/ \E q \in Waiting : PutRejected(q)

SpecKrs == Init /\ [][NextKrs]_vars

\* The calls at one reading of the clock of CACHE_KV.  A fetch settles
\* within the 10 seconds of AbortSignal.timeout (the timeout is one of the
\* registry's answers), the body of a response is read to its end, and the
\* operations of CACHE_KV settle: a call that waits at an await is resumed.
NextCalls ==
  \/ AgentInit
  \/ ViewCompany
  \/ \E q \in Waiting : Looked(q)
  \/ \E q \in Waiting : GetRejected(q)
  \/ \E q \in Waiting : Fetched(q)
  \/ \E q \in Waiting : BodyRead(q)
  \/ \E q \in Waiting : Stored(q)
  \/ \E q \in Waiting : PutRejected(q)

FairSpecCalls ==
  /\ Init /\ [][NextCalls]_vars
  /\ WF_vars(\E q \in Waiting : \/ Looked(q) \/ GetRejected(q)
                                 \/ Fetched(q)
                                 \/ BodyRead(q)
                                 \/ Stored(q) \/ PutRejected(q))

(***************************************************************************)
(* transformResponse alone: it is applied to a payload, and later to the   *)
(* same payload once more, while the clock moves on.                       *)
(***************************************************************************)
Transform ==
  /\ applied.pc = "idle"
  /\ \E p \in Payloads :
       applied' = [NotApplied EXCEPT
                     !.pc = "once", !.parts = p.parts, !.wartosc = p.wartosc,
                     !.flaw = p.flaw,
                     !.first = TransformOutcome(PayloadOf(p),
                                                ToISOString(clock)),
                     !.firstAt = clock]
  /\ UNCHANGED <<lruVars, serverVars, routed, rpc, clock, kv, calls, lookups, written, ended,
                 registered>>

TransformAgain ==
  /\ applied.pc = "once"
  /\ applied' = [applied EXCEPT
                   !.pc = "twice",
                   !.second = TransformOutcome(PayloadOf(applied),
                                               ToISOString(clock)),
                   !.secondAt = clock]
  /\ UNCHANGED <<lruVars, serverVars, routed, rpc, clock, kv, calls, lookups, written, ended,
                 registered>>

NextTransform ==
  \/ ClockTick
  \/ Transform
  \/ TransformAgain

SpecTransform == Init /\ [][NextTransform]_vars

(***************************************************************************)
(* Claims about the LRU cache.                                             *)
(***************************************************************************)
PositionIn(s, key) == CHOOSE i \in 1..Len(s) : s[i] = key

\* C1: for a cache of capacity MaxSize >= 1, after any sequence of get, set
\* and has calls the number of cached entries is at most MaxSize.
C1_SizeAtMostCapacity == LRUSize(cache) <= MaxSize

\* A full cache on which a set has just evicted an entry to make room.
C1_Witness ==
  /\ ret.op = "set"
  /\ Len(emitted) = 1
  /\ LRUSize(cache) = MaxSize

\* C2: whenever set evicts, no entry that stays cached was last touched by
\* get/set before the last touch of the evicted entry.
C2_EvictsLeastRecentlyTouched ==
  [][\A k \in Keys(cache) \ Keys(cache') :
       \A j \in Keys(cache) \cap Keys(cache') :
         PositionIn(recency, k) < PositionIn(recency, j)]_vars

(***************************************************************************)
(* Claims about the key-based lane.                                        *)
(***************************************************************************)
Cached(u) == IF MapHas(cache, u) THEN 1 ELSE 0

\* C3: getOrCreateServer constructs a server for an identity only when the
\* cache holds none for it: the servers constructed for an identity are one
\* per eviction of it, plus the one that is cached, and as long as the
\* identity has not been evicted every request gets the first server.
C3_OneServerPerIdentity ==
  /\ \A u \in Identities :
       /\ created[u] = evictions[u] + Cached(u)
       /\ created[u] <= 1 + evictions[u]
  /\ \A q \in InFlight :
       q.pc = "transport" /\ evictions[q.userId] = 0
         => q.server = [userId |-> q.userId, serial |-> 1]

\* Two requests of one identity in flight together: the first constructed
\* the server, the second found it in the cache.
C3_Witness ==
  \E q1, q2 \in InFlight :
    /\ q1.pc = "transport" /\ q2.pc = "transport"
    /\ q1.userId = q2.userId
    /\ q1.usedCache /\ q2.usedCache
    /\ q1.server = q2.server
    /\ BagCardinality(reqs) = 2
    /\ created[q1.userId] = 1

\* C4: a request without a credential, or with one that validateApiKey
\* rejects, is answered 401; the request makes no call on the cache, the step
\* that answers leaves the cache as it is, and nothing is dispatched.
C4_UnauthorizedBeforeCache ==
  [][(/\ sent'.pc = "done"
      /\ sent'.via \in {"fetch", "call"}
      /\ (sent'.authHeader = Null \/ sent'.auth = "rejected"))
       => (/\ sent'.status = 401
           /\ ~sent'.usedCache
           /\ sent'.handler = "none"
           /\ sent'.response = JUndef
           /\ cache' = cache
           /\ recency' = recency)]_vars

\* A rejected credential answered 401 while the cache holds servers.
C4_Witness ==
  /\ sent.pc = "done"
  /\ sent.auth = "rejected"
  /\ sent.status = 401
  /\ Len(cache) > 0

(***************************************************************************)
(* Claims about the router.                                                *)
(***************************************************************************)
\* The text p stands in s at the place i
OccursAt(s, p, i) == i + Len(p) - 1 <= Len(s) /\ SubSeq(s, i, i + Len(p) - 1) = p

\* The k-th character of the header when the seven characters from the
\* place cut on are left out ("" past its end)
CharWithout(header, cut, k) ==
  LET at == IF k < cut THEN k ELSE k + 7
  IN IF at <= Len(header) THEN SubSeq(header, at, at) ELSE ""

\* The header reads "wtyk_" at its start once its first "Bearer ", wherever
\* that stands, is left out; a header without "Bearer " reads so as it is
KeyShaped(header) ==
  \/ /\ \A i \in 1..Len(header) : ~OccursAt(header, "Bearer ", i)
     /\ OccursAt(header, "wtyk_", 1)
  \/ \E i \in 1..Len(header) :
       /\ OccursAt(header, "Bearer ", i)
       /\ \A j \in 1..(i - 1) : ~OccursAt(header, "Bearer ", j)
       /\ \A k \in 1..5 : CharWithout(header, i, k) = SubSeq("wtyk_", k, k)

\* Headers that the router takes for a key, and headers that it does not
TakenForKey == {"Bearer wtyk_u1", "Bearer wtyk_", "wtyk_u1", "wBearer tyk_u1", "wtyk_Bearer u1"}
NotTakenForKey ==
  {"", "Bearer ", "bearer wtyk_u1", "Bearer  wtyk_u1", "Bearer Bearer wtyk_u1", "Bearer wtyk",
   "Bearer Wtyk_u1", "Bearer xwtyk_u1", "Basic wtyk_u1", "Bearer abc"}

\* C5 as stated: a request goes to the key-based lane exactly when its path
\* is "/mcp" and its Authorization header is a bearer token that starts with
\* "wtyk_".  The router sends a header without the scheme there as well.
C5_BearerTokenHasPrefix ==
  routed.lane # "none" =>
    /\ routed.lane \in {"api_key", "oauth"}
    /\ routed.lane = "api_key" <=>
         /\ routed.pathname = "/mcp"
         /\ routed.authHeader # Null
         /\ OccursAt(routed.authHeader, "Bearer wtyk_", 1)

\* C5: a request goes to exactly one lane, and to the key-based lane exactly
\* when its path is "/mcp", it has an Authorization header, and the header
\* without its first "Bearer ", wherever that stands, starts with "wtyk_":
\* so it is for "Bearer wtyk_...", for a header without the scheme and for
\* one in which "Bearer " interrupts the prefix, and not for the scheme in
\* lower case, with two spaces or twice.
C5_LaneSelection ==
  routed.lane # "none" =>
    /\ routed.lane \in {"api_key", "oauth"}
    /\ routed.lane = "api_key" <=>
         /\ routed.pathname = "/mcp"
         /\ routed.authHeader # Null
         /\ KeyShaped(routed.authHeader)
    /\ (routed.pathname = "/mcp" /\ routed.authHeader \in TakenForKey)
         => routed.lane = "api_key"
    /\ routed.authHeader \in NotTakenForKey => routed.lane = "oauth"

\* A key without the scheme on the protocol endpoint, sent to the key-based lane.
C5_Witness ==
  /\ routed.pathname = "/mcp"
  /\ routed.authHeader = "wtyk_u1"
  /\ routed.lane = "api_key"

(***************************************************************************)
(* Claims about the dispatcher.                                            *)
(***************************************************************************)
Answered == rpc.response # JUndef
HasResult == rpc.response.result # JUndef
HasError == rpc.response.error # JUndef
ErrorCode == IF HasError THEN rpc.response.error.code ELSE 0
ErrorMessage == IF HasError THEN rpc.response.error.message ELSE ""
IsEnvelope == rpc.body.t = "object"
ValidEnvelope == IsEnvelope /\ IsString(rpc.body.jsonrpc, "2.0")

\* C6: every response carries exactly one of result and error, and an error
\* has a code and a message.
C6_ResultXorError ==
  Answered =>
    /\ HasResult # HasError
    /\ HasError => ErrorCode < 0 /\ ErrorMessage # ""

\* A failure: an error and no result.
C6_Witness == Answered /\ HasError /\ ~HasResult /\ ErrorCode = -32602

\* C7: a body that parsed into a JSON value other than null gets its id back,
\* and never the parse error -32700, whatever its handler does.
C7_IdEchoed ==
  (Answered /\ rpc.body.t \notin {"invalid", "null"}) =>
    /\ rpc.response.id = Prop(rpc.body, "id")
    /\ ErrorCode # -32700

\* C8 as claimed: every body that is not an object with the envelope's fields
\* gets the parse error -32700 and the sentinel id.
C8_NonEnvelopeIsParseError ==
  (Answered /\ ~IsEnvelope) =>
    ErrorCode = -32700 /\ rpc.response.id = JStr("error")

\* C8: a body that is not JSON, or is the JSON null, gets the parse error
\* -32700 and the sentinel id; any other JSON value that is not an object gets
\* -32600 and no id.
C8_UnparsableIsParseError ==
  /\ (Answered /\ rpc.body.t \in {"invalid", "null"}) =>
       ErrorCode = -32700 /\ rpc.response.id = JStr("error") /\ ~HasResult
  /\ (Answered /\ ~IsEnvelope /\ rpc.body.t \notin {"invalid", "null"}) =>
       ErrorCode = -32600 /\ rpc.response.id = JUndef /\ ~HasResult

\* The JSON null, answered with the parse error.
C8_Witness == Answered /\ rpc.body.t = "null" /\ ErrorCode = -32700

\* C9: an envelope whose marker is not exactly "2.0" gets -32600 whatever its
\* method, and no handler is called.
C9_InvalidRequest ==
  (Answered /\ IsEnvelope /\ rpc.body.jsonrpc # JStr("2.0")) =>
    /\ ErrorCode = -32600
    /\ ~HasResult
    /\ rpc.handler = "none"

\* A ping with the marker "1.0".
C9_Witness ==
  /\ Answered /\ IsEnvelope
  /\ rpc.body.jsonrpc = JStr("1.0")
  /\ rpc.body.method = JStr("ping")
  /\ ErrorCode = -32600

HandlerOf(m) ==
  CASE m = "initialize" -> "handleInitialize"
    [] m = "ping" -> "handlePing"
    [] m = "tools/list" -> "handleToolsList"
    [] m = "tools/call" -> "handleToolsCall"
    [] m = "resources/list" -> "handleResourcesList"
    [] m = "resources/read" -> "handleResourcesRead"
    [] m = "prompts/list" -> "handlePromptsList"

\* C10: in a valid envelope each of the seven methods reaches its handler and
\* is not answered -32601; any other method, a missing one included, is
\* answered -32601 with a message that names it.
C10_MethodRouting ==
  (Answered /\ ValidEnvelope) =>
    IF rpc.body.method.t = "string" /\ rpc.body.method.v \in Methods
    THEN rpc.handler = HandlerOf(rpc.body.method.v) /\ ErrorCode # -32601
    ELSE /\ rpc.handler = "none"
         /\ ErrorCode = -32601
         /\ ErrorMessage = "Method not found: " \o JText(rpc.body.method)

\* An unknown method, named in the answer.
C10_Witness ==
  /\ Answered /\ ValidEnvelope
  /\ rpc.body.method = JStr("no-such-method")
  /\ ErrorMessage = "Method not found: no-such-method"

\* The tools the key-based lane knows and the resources it has registered
KnownTools == {"example-tool"}
KnownResources == {WidgetUri}

\* A property of the params of the body given to the dispatcher
RequestParam(name) == Prop(Prop(rpc.body, "params"), name)

\* C11: tools/call with a name that is not a known tool (no params and no
\* name included) is answered -32602 with a message naming the tool, and
\* resources/read with a URI that is not a registered resource is answered
\* -32602 with a message naming the URI; the id is echoed and there is no result.
C11_UnknownToolOrResource ==
  (Answered /\ ValidEnvelope) =>
    /\ (/\ rpc.body.method = JStr("tools/call")
        /\ ~(RequestParam("name").t = "string" /\ RequestParam("name").v \in KnownTools))
         => /\ ErrorCode = -32602
            /\ ErrorMessage = "Unknown tool: " \o JText(RequestParam("name"))
            /\ rpc.response.id = Prop(rpc.body, "id")
            /\ ~HasResult
    /\ (/\ rpc.body.method = JStr("resources/read")
        /\ ~(RequestParam("uri").t = "string" /\ RequestParam("uri").v \in KnownResources))
         => /\ ErrorCode = -32602
            /\ ErrorMessage = "Unknown resource: " \o JText(RequestParam("uri"))
            /\ rpc.response.id = Prop(rpc.body, "id")
            /\ ~HasResult

\* A call of a tool the lane does not know, and one without params.
C11_Witness ==
  /\ Answered /\ ValidEnvelope
  /\ rpc.body.method = JStr("tools/call")
  /\ rpc.body.params # JUndef
  /\ ErrorMessage = "Unknown tool: view_company"
  /\ rpc.response.id = JNum("1")

(***************************************************************************)
(* Claims about the frame of get and set.                                  *)
(***************************************************************************)
\* C17: get on a key that is not cached returns undefined and changes
\* nothing: keys, values, timestamps and size are as before.
C17_GetMissNoEffect ==
  [][\A key \in CacheKeys :
       (ret'.op = "get" /\ Get(key) /\ key \notin Keys(cache))
         => /\ ret'.result = Undefined
            /\ cache' = cache
            /\ LRUSize(cache') = LRUSize(cache)]_vars

\* A miss on a full cache.
C17_Witness ==
  /\ ret.op = "get"
  /\ ret.result = Undefined
  /\ ret.key \notin Keys(cache)
  /\ LRUSize(cache) = MaxSize

\* C18: get on a cached key returns the stored value, sets that entry's
\* lastAccessed to the clock's reading and changes nothing else: every key
\* keeps its place and its value, every other entry its timestamp.
C18_GetHitRefreshesOnly ==
  [][\A key \in CacheKeys :
       (ret'.op = "get" /\ Get(key) /\ key \in Keys(cache))
         => /\ \E i \in 1..Len(cache) :
                 cache[i].key = key /\ ret'.result = cache[i].value
            /\ Len(cache') = Len(cache)
            /\ \A j \in 1..Len(cache) :
                 /\ cache'[j].key = cache[j].key
                 /\ cache'[j].value = cache[j].value
                 /\ cache'[j].lastAccessed =
                      IF cache[j].key = key THEN now ELSE cache[j].lastAccessed]_vars

\* A hit on a full cache, after the clock has moved: the entry read carries
\* the new reading, another one the old.
C18_Witness ==
  /\ ret.op = "get"
  /\ ret.result # Undefined
  /\ LRUSize(cache) = MaxSize
  /\ now > 0
  /\ \E i, j \in 1..Len(cache) :
       /\ cache[i].key = ret.key /\ cache[i].lastAccessed = now
       /\ cache[j].lastAccessed < now

\* C19: set on a cached key overwrites the entry where it is and evicts
\* nothing, also when the cache is full: keys, their order and the size stay,
\* no other entry changes, and no eviction is logged.
C19_SetExistingInPlace ==
  [][\A key \in CacheKeys, value \in CacheValues :
       (ret'.op = "set" /\ Set(key, value) /\ key \in Keys(cache))
         => /\ Len(cache') = Len(cache)
            /\ emitted' = <<>>
            /\ \A j \in 1..Len(cache) :
                 IF cache[j].key = key
                 THEN cache'[j] = [key |-> key, value |-> value, lastAccessed |-> now]
                 ELSE cache'[j] = cache[j]]_vars

\* A set on a full cache that evicted nothing and whose key is not the last
\* in the Map's order: the entry was overwritten where it was.
C19_Witness ==
  /\ ret.op = "set"
  /\ emitted = <<>>
  /\ LRUSize(cache) = MaxSize
  /\ \E i \in 1..(Len(cache) - 1) : cache[i].key = ret.key

(***************************************************************************)
(* Claims about concurrent requests of distinct identities.                *)
(***************************************************************************)
\* The identities for which a server has been constructed
Served == {u \in Identities : created[u] > 0}

\* C20: as long as no more than MaxSize distinct identities have come to the
\* cache, in any interleaving of their requests, nothing has been evicted,
\* every one of them is cached and the size is their number.
C20_DistinctIdentitiesAllCached ==
  Cardinality(Served) <= MaxSize =>
    /\ \A u \in Identities : evictions[u] = 0
    /\ Keys(cache) = Served
    /\ LRUSize(cache) = Cardinality(Served)

\* MaxSize requests of distinct identities past the cache together: the
\* cache is full and nothing was evicted.
C20_Witness ==
  /\ BagCardinality(reqs) = MaxSize
  /\ \A q \in InFlight : q.pc = "transport"
  /\ Cardinality({q.userId : q \in InFlight}) = MaxSize
  /\ LRUSize(cache) = MaxSize
  /\ \A u \in Identities : evictions[u] = 0

(***************************************************************************)
(* Claims about view_company and the response cache.                       *)
(***************************************************************************)
Ended == ended.pc = "done"
EndedKey == CacheKey(ended.krs, ended.type)

\* The registry did not deliver an extract: no answer in time, no
\* connection, a status that is not a success, or a body that is none
RegistryFailed(answer) ==
  \/ answer.kind \in {"timeout", "network"}
  \/ answer.kind = "response" /\ (answer.status < 200 \/ answer.status > 299)
  \/ answer.kind = "response" /\ answer.body \in {NoExtract, InvalidJson}

\* C12: a call of view_company by an authenticated user never ends in an
\* exception.  When the registry lookup fails (not found, invalid input,
\* timeout, unavailable, any other status, no extract in the body), and
\* when getCompany fails otherwise, the result has isError = true and one
\* text content that names the KRS number and the failure; otherwise it has
\* a text content, the record as structuredContent and no isError.
C12_FailuresAreToolResults ==
  (Ended /\ ~NoUserId(ended.userId)) =>
    /\ ended.result.t = "object"
    /\ Len(ended.result.content) = 1
    /\ ended.result.content[1].type = "text"
    /\ ended.outcome.kind \in {"record", "failure"}
    /\ RegistryFailed(ended.answer) => ended.outcome.kind = "failure"
    /\ IF ended.outcome.kind = "failure"
       THEN /\ ended.result.isError = JTrue
            /\ ended.result.structuredContent = JUndef
            /\ ended.result.content[1].text =
                 <<"Error looking up KRS " \o ended.krs \o ": " \o ended.outcome.message>>
            /\ ended.outcome.message # ""
       ELSE /\ ended.result.isError = JUndef
            /\ ended.result.structuredContent = ended.outcome.data
            /\ ended.result.structuredContent.t = "object"
            /\ Len(ended.result.content[1].text) > 0

\* The registry did not answer in time: the tool result carries the error flag.
C12_Witness ==
  /\ Ended
  /\ ended.answer.kind = "timeout"
  /\ ended.result.t = "object"
  /\ ended.result.isError = JTrue

\* The entries of the cache under a key
EntriesOf(store, key) == {e \in store : e.key = key}

\* C13: an entry older than its lifetime is never returned, and a lookup of
\* its key goes the way of a key that was never stored: getCompany finds
\* what it finds without the entry, asks the registry, and stores the record
\* it returns.
C13_ExpiredIsMiss ==
  /\ \A q \in Waiting \cup {ended} : q.saw = "old" => ~q.hit
  /\ \A a \in ViewCompanyArgs :
       LET type == TypeOrDefault(a.type)
           key == CacheKey(a.krs, type)
       IN AgeOf(kv, key, clock) > CacheTtl =>
            GetCompanyLookup(kv, a.krs, type, clock) =
              GetCompanyLookup(kv \ EntriesOf(kv, key), a.krs, type, clock)
  /\ (Ended /\ ended.saw \in {"old", "absent"}) =>
       /\ ended.answer # NoAnswer
       /\ ended.outcome.kind = "record" =>
            /\ ended.stored
            /\ EntriesOf(kv, EndedKey) =
                 {[key |-> EndedKey, value |-> Stringify(ended.outcome.data),
                   storedAt |-> clock, ttl |-> CacheTtl]}

\* A call that found an entry older than its lifetime, asked the registry
\* and stored the record again.
C13_Witness ==
  /\ Ended
  /\ ended.saw = "old"
  /\ ended.stored
  /\ ended.answer.kind = "response"

\* C14: every entry has the lifetime CacheTtl, counted from the time of its
\* put; a hit writes nothing, so no entry is changed but by a put, and an
\* entry is absent at every time after its lifetime.
C14_NoSlidingExpiry ==
  [][/\ (ended'.pc = "done" /\ ended'.hit) => kv' = kv
     /\ \A e \in kv' :
          /\ e.ttl = CacheTtl
          /\ e \in kv \/ (ended'.stored /\ e.storedAt = clock /\ e.key = CacheKey(ended'.krs, ended'.type))
          /\ clock' > e.storedAt + CacheTtl => KvGet(kv', e.key, clock') = JNull]_vars

\* A hit on an entry stored a second or more ago, which is left as it was.
C14_Witness ==
  /\ Ended
  /\ ended.hit
  /\ ended.age >= 1
  /\ AgeOf(kv, EndedKey, clock) = ended.age

\* The record last handed to the cache under a key
WrittenRecord(key) == (CHOOSE w \in written : w.key = key).record

\* C15: a lookup of a key whose entry is younger than the lifetime returns
\* a value equal to the record that was stored, and the registry is not asked.
C15_RoundTrip ==
  (Ended /\ ended.saw = "fresh") =>
    /\ ended.hit
    /\ ended.answer = NoAnswer
    /\ ~ended.stored
    /\ ended.outcome.kind = "record"
    /\ ended.outcome.data = WrittenRecord(EndedKey)

\* A hit, a second or more after the store, that returned the record.
C15_Witness ==
  /\ Ended
  /\ ended.saw = "fresh"
  /\ ended.age >= 1
  /\ ended.outcome.data.t = "object"
  /\ ended.outcome.data = WrittenRecord(EndedKey)

\* C16: a put under a key that has an entry replaces it: afterwards the
\* cache holds one entry for the key, with the record put last and its
\* lifetime counted from this put.
C16_StoreReplaces ==
  [][/\ ended'.stored =>
          EntriesOf(kv', CacheKey(ended'.krs, ended'.type)) =
            {[key |-> CacheKey(ended'.krs, ended'.type),
              value |-> Stringify(ended'.outcome.data),
              storedAt |-> clock, ttl |-> CacheTtl]}
     /\ \A e1, e2 \in kv' : e1.key = e2.key => e1 = e2]_vars

\* Two calls that overlap and both miss: the second put replaces a live
\* entry that holds another record.
C16_Witness ==
  /\ Ended
  /\ ended.stored
  /\ ended.saw = "absent"
  /\ ended.prior # JNull
  /\ ended.prior # Stringify(ended.outcome.data)
  /\ Cardinality(EntriesOf(kv, EndedKey)) = 1

(***************************************************************************)
(* Claims about transformResponse.                                         *)
(***************************************************************************)
\* The properties of a CompanyData record
CompanyDataFields ==
  {"t", "name", "krs", "nip", "regon", "legalForm", "address", "capital", "shareholders",
   "representation", "mainActivity", "otherActivities", "registrationDate", "lastUpdate",
   "dataTimestamp"}

NoItems == JArr(<<>>)

\* C21: transformResponse is total over payloads that lack optional parts:
\* it throws nothing and returns a record of the fixed shape in which each
\* part that is absent shows as null (nip, regon, address.unit, capital) or
\* as an empty list (shareholders, representation.members, mainActivity,
\* otherActivities); so it does for the payload that lacks all of them.
C21_TotalOnAbsentParts ==
  (applied.pc # "idle" /\ applied.flaw = "none") =>
    LET r == applied.first
        absent(part) == part \notin applied.parts
    IN /\ r.t = "object"
       /\ DOMAIN r = CompanyDataFields
       /\ absent("identyfikatory") => r.nip = JNull /\ r.regon = JNull
       /\ absent("nrLokalu") => r.address.unit = JNull
       /\ applied.wartosc = NoCapital => r.capital = JNull
       /\ absent("wspolnicySpzoo") => r.shareholders = NoItems
       /\ absent("dzial2") => r.representation.members = NoItems
       /\ absent("dzial3") => r.mainActivity = NoItems /\ r.otherActivities = NoItems
       /\ absent("przedmiotPozostalejDzialalnosci") => r.otherActivities = NoItems

\* C21 witness: transformResponse has returned a record for the payload
\* that has none of the optional parts
C21_Witness ==
  /\ applied.pc = "once"
  /\ applied.parts = {}
  /\ applied.wartosc = NoCapital
  /\ applied.first.t = "object"
  /\ applied.first.capital = JNull
  /\ applied.first.representation.members = NoItems

\* C22: transformResponse is deterministic: applied twice to the same raw
\* payload, at whatever times, it returns deep-equal records, also for a
\* payload without an extract timestamp.
C22_SamePayloadSameRecord ==
  applied.pc = "twice" => applied.second = applied.first

\* C23: the capital.value of the record is the stated share capital with
\* every comma turned into a dot: it holds no comma, it is as long as the
\* input and it agrees with the input at every place that is not a comma.
C23_CommaNormalized ==
  (applied.pc # "idle" /\ applied.wartosc # NoCapital /\ applied.flaw = "none") =>
    LET in == applied.wartosc
        out == applied.first.capital.value.v
    IN /\ applied.first.capital.value.t = "string"
       /\ Len(out) = Len(in)
       /\ \A i \in 1..Len(in) :
            SubSeq(out, i, i) = (IF SubSeq(in, i, i) = "," THEN "." ELSE SubSeq(in, i, i))

(***************************************************************************)
(* Claims about getCompany and the registry.                               *)
(***************************************************************************)
\* The failure kinds of the spec, told by the message of the Error that
\* getCompany throws
FailureKind(message, krs) ==
  CASE message = "Company with KRS " \o krs \o " not found in registry" -> "NotFound"
    [] message = "Invalid KRS number format: " \o krs -> "InvalidInput"
    [] message \in {"KRS API timeout - please try again",
                    "KRS API unavailable - please try again later"} -> "Unavailable"
    [] StartsWith(message, "KRS API error: ") -> "Unknown"
    [] OTHER -> "Unexpected"

\* The number of requests a call has sent to the registry
FetchesOf(q) == Cardinality({i \in 1..Len(q.steps) : q.steps[i] = "fetch"})

\* C24: every getCompany invocation completes: while calls wait, another
\* one ends, with a record or a failure.  No call sends more than one
\* request to the registry; a request that the timeout abandons ends the
\* call with an unavailable-service failure, and the call that failed is
\* over: it waits for nothing and has sent its one request only (none when
\* the cache did not answer its lookup).
C24_CompletesWithoutRetry ==
  /\ [](\A q \in Waiting \cup {ended} : FetchesOf(q) <= 1)
  /\ []((Ended /\ ~NoUserId(ended.userId)) =>
          /\ ended.outcome.kind \in {"record", "failure"}
          /\ ended \notin Waiting
          /\ ended.outcome.kind = "failure" =>
               FetchesOf(ended) = (IF ended.saw = "none" THEN 0 ELSE 1)
          /\ ended.answer.kind = "timeout" =>
               /\ ended.outcome.kind = "failure"
               /\ FailureKind(ended.outcome.message, ended.krs) = "Unavailable")
  /\ (calls # EmptyBag) ~> (calls = EmptyBag)

\* C24 witness: the registry did not answer a call in time and the call has
\* ended, having sent one request
C24_Witness ==
  /\ Ended
  /\ ended.answer.kind = "timeout"
  /\ ended.outcome.kind = "failure"
  /\ ended.steps = <<"get", "fetch">>
  /\ ended.result.isError = JTrue

\* The kind of the outcome of a call that asked the registry
OutcomeKind(q) ==
  IF q.outcome.kind = "record" THEN "Success"
  ELSE FailureKind(q.outcome.message, q.krs)

\* C25: getCompany maps the registry's outcome to one kind: the status 404
\* to NotFound, 400 to InvalidInput, a network error or a timeout to
\* Unavailable, any other status that is no success to Unknown with the
\* status in the message; each of these kinds comes from its outcome only,
\* and a record comes from a success status only (a success status whose
\* body is no extract, or whose record the cache does not take, ends in
\* the error of that step, none of the four).
C25_OutcomeToKind ==
  (Ended /\ ended.answer.kind # "none") =>
    LET a == ended.answer
        kind == OutcomeKind(ended)
        status(n) == a.kind = "response" /\ a.status = n
        otherStatus == a.kind = "response" /\ ~ResponseOk(a.status) /\ a.status \notin {404, 400}
    IN /\ status(404) <=> kind = "NotFound"
       /\ status(400) <=> kind = "InvalidInput"
       /\ a.kind \in {"network", "timeout"} <=> kind = "Unavailable"
       /\ otherStatus <=> kind = "Unknown"
       /\ otherStatus => ended.outcome.message = "KRS API error: " \o ToString(a.status)
       /\ kind = "Success" => a.kind = "response" /\ ResponseOk(a.status)
       /\ kind = "Success" => ended.outcome.data.t = "object"
       /\ kind = "Unexpected" => a.kind = "response" /\ ResponseOk(a.status)

\* C25 witness: the registry answered 503 and the call ended with the
\* failure that carries the status
C25_Witness ==
  /\ Ended
  /\ ended.answer.kind = "response"
  /\ ended.answer.status = 503
  /\ ended.outcome.kind = "failure"
  /\ ended.outcome.message = "KRS API error: 503"

\* C26: a call that finds no live entry does, in this order, one request to
\* the registry, the reading and the transformation of the answer and the
\* store of the record, and then returns that record: a lookup that follows
\* returns the same.  A call that finds a live entry returns the record
\* parsed from it and does nothing else: no request, no transformation, no store.
C26_MissFetchesTransformsStores ==
  (Ended /\ ~NoUserId(ended.userId) /\ ended.saw # "none") =>
    IF ended.saw = "fresh"
    THEN /\ ended.steps = <<"get">>
         /\ ended.answer = NoAnswer
         /\ ~ended.stored
         /\ ended.outcome.kind = "record"
         /\ ended.outcome.data = ReadCached(KvGet(kv, EndedKey, clock))
    ELSE /\ SubSeq(ended.steps, 1, 2) = <<"get", "fetch">>
         /\ ended.outcome.kind = "record" =>
              /\ ended.steps = <<"get", "fetch", "json", "transform", "put">>
              /\ ended.stored
              /\ \E t \in 0..MaxClock :
                   ended.outcome.data = TransformResponse(ended.answer.body, ToISOString(t))
              /\ GetCompanyLookup(kv, ended.krs, ended.type, clock) =
                   [hit |-> TRUE, data |-> ended.outcome.data]
              /\ ended.result.structuredContent = ended.outcome.data

\* C26 witness: a call over an expired entry has asked the registry,
\* transformed the answer, stored the record and returned it
C26_Witness ==
  /\ Ended
  /\ ended.saw \in {"due", "old"}
  /\ ended.outcome.kind = "record"
  /\ ended.stored
  /\ ended.steps = <<"get", "fetch", "json", "transform", "put">>

(***************************************************************************)
(* Claims about eviction from the LRU cache.                               *)
(***************************************************************************)
\* The keys that a step removes from the cache
Removed == Keys(cache) \ Keys(cache')

\* C27: a set that evicts writes exactly one notification, which names the
\* evicted key and the size of the cache after that entry was removed; a
\* set that evicts nothing writes none.
C27_EvictionNotified ==
  [][ret'.op = "set" =>
       IF Removed # {}
       THEN /\ Len(emitted') = 1
            /\ emitted'[1].event = "lru_cache_eviction"
            /\ Removed = {emitted'[1].evicted_user_id}
            /\ emitted'[1].cache_size = Len(cache) - 1
       ELSE emitted' = <<>>]_vars

\* The keys of the cache in its iteration order
KeySeq(c) == [i \in 1..Len(c) |-> c[i].key]

\* The first place, in iteration order, of an entry with the smallest lastAccessed
FirstOfOldest(c) ==
  CHOOSE i \in 1..Len(c) :
    /\ \A j \in 1..Len(c) : c[i].lastAccessed <= c[j].lastAccessed
    /\ \A j \in 1..(i - 1) : c[j].lastAccessed > c[i].lastAccessed

IsOldKey(e) == e.key \in Keys(cache')

\* C28: the entry evicted is a function of the cache: of the entries with
\* the smallest lastAccessed it is the first in iteration order.  That
\* order is the order in which the keys were first inserted: a get and a
\* set leave the cached keys where they are and a new key goes last.
C28_FirstOfOldestEvicted ==
  [][\A key \in CacheKeys :
       (ret'.op \in {"get", "set"} /\ ret'.key = key /\ cache' # cache) =>
         /\ Removed # {} => Removed = {cache[FirstOfOldest(cache)].key}
         /\ KeySeq(cache') =
              KeySeq(SelectSeq(cache, IsOldKey)) \o
              (IF key \in Keys(cache) THEN <<>> ELSE <<key>>)]_vars

\* C28 witness: a set has evicted an entry while every entry of the cache
\* had the same lastAccessed (the clock has not moved yet)
C28_Witness ==
  /\ now = 0
  /\ ret.op = "set"
  /\ Len(emitted) = 1
  /\ emitted[1].event = "lru_cache_eviction"
  /\ Len(cache) = MaxSize
  /\ \A i \in 1..Len(cache) : cache[i].lastAccessed = 0

\* C29: an entry leaves the cache only by eviction: a step that removes a
\* key is a set of a key that is not cached, made while the cache holds
\* MaxSize entries; it removes exactly one entry and inserts the new one, so
\* that the cache holds MaxSize entries again, the new key among them.  Every
\* such set evicts, and no other call removes anything.
C29_LeavesOnlyByEviction ==
  [][/\ Removed # {} =>
          /\ ret'.op = "set"
          /\ ret'.key \notin Keys(cache)
          /\ Len(cache) = MaxSize
          /\ Cardinality(Removed) = 1
          /\ Len(cache') = MaxSize
          /\ ret'.key \in Keys(cache')
          /\ Keys(cache') = (Keys(cache) \ Removed) \cup {ret'.key}
     /\ (ret'.op = "set" /\ ret'.key \notin Keys(cache) /\ Len(cache) = MaxSize) =>
          Cardinality(Removed) = 1]_vars

\* C29 witness: the cache is full again after a set that evicted an entry,
\* and the key that was set is in it
C29_Witness ==
  /\ ret.op = "set"
  /\ Len(emitted) = 1
  /\ emitted[1].event = "lru_cache_eviction"
  /\ emitted[1].evicted_user_id # ret.key
  /\ ~MapHas(cache, emitted[1].evicted_user_id)
  /\ MapHas(cache, ret.key)
  /\ Len(cache) = MaxSize
  /\ now > 0

(***************************************************************************)
(* Claims about the two lanes.                                             *)
(***************************************************************************)
\* The tool names in the answer to tools/list
ListedTools ==
  {rpc.response.result.tools[i].name : i \in 1..Len(rpc.response.result.tools)}

\* C30: the key lane reaches the tools of the OAuth lane's server: the
\* names it lists in tools/list are the names that server registers, and
\* tools/call accepts a name exactly when that server registers it.
C30_SameToolsInBothLanes ==
  (Answered /\ ValidEnvelope) =>
    /\ (rpc.handler = "handleToolsList" /\ HasResult) => ListedTools = RegisteredTools
    /\ (rpc.handler = "handleToolsCall" /\ RequestParam("name").t = "string") =>
         (RequestParam("name").v \in RegisteredTools <=> ErrorCode # -32602)

(***************************************************************************)
(* Claims about the requests of the key-based lane.                        *)
(***************************************************************************)
\* The last step wrote a server_error record
LoggedServerError == \E i \in 1..Len(emitted) : emitted[i].event = "server_error"

\* C31: a request is answered once and no exception escapes: a request that
\* waits at an await has no response yet, a request that has ended is not
\* waiting any more, and a request of the key lane ends with one of the
\* responses 200, 400, 401 and 500.  When validateApiKey, the construction
\* of the server or the OAuth provider throws, the catch block logs a
\* server_error and the response is the 500 "Internal server error".
C31_FailuresAnswered500 ==
  /\ \A q \in InFlight :
       /\ q.pc \in {"provider", "validating", "rejected", "transport", "reading"}
       /\ q.status = 0
       /\ q.response = JUndef
  /\ sent.pc = "done" =>
       /\ sent \notin InFlight
       /\ sent.via \in {"fetch", "call"} => sent.status \in {200, 400, 401, 500}
       /\ LoggedServerError <=> sent.status = 500
       /\ sent.auth = "threw" => sent.status = 500
       /\ sent.status = 500 =>
            /\ StartsWith(sent.error, "Internal server error")
            /\ sent.response = JUndef
            /\ sent.handler = "none"

\* C31 witness: the key was accepted, the construction of the server threw
\* and the request was answered 500
C31_Witness ==
  /\ sent.pc = "done"
  /\ sent.via = "fetch"
  /\ sent.auth = "accepted"
  /\ sent.status = 500
  /\ sent.error = "Internal server error: SERVER_INIT_ERROR"
  /\ LoggedServerError

\* s holds sub as a substring
Contains(s, sub) ==
  \E i \in 1..(Len(s) - Len(sub) + 1) : SubSeq(s, i, i + Len(sub) - 1) = sub

\* The bearer tokens of the requests
Tokens ==
  {ExtractApiKey(h) : h \in (ServerAuthHeaders \cup DirectAuthHeaders) \ {Null}}

\* The fields of a log record that hold text
TextFields(rec) == DOMAIN rec \ {"success", "cache_size"}

AuthRecords == {i \in 1..Len(emitted) : emitted[i].event = "auth_attempt"}

\* C32: no field of a log record written for a request holds a bearer
\* token.  A key that validateApiKey rejects is logged as an auth_attempt
\* with success = false and a reason, a key it accepts as an auth_attempt
\* with success = true and the user the key resolved to.
C32_NoCredentialInLogs ==
  /\ \A i \in 1..Len(emitted) : \A f \in TextFields(emitted[i]) : \A token \in Tokens :
       ~Contains(emitted[i][f], token)
  /\ \A i \in AuthRecords :
       IF emitted[i].success
       THEN /\ emitted[i].user_id \in Identities
            /\ \E q \in InFlight \cup {sent} :
                 /\ q.auth = "accepted"
                 /\ ValidateApiKey(q.apiKey).userId = emitted[i].user_id
                 /\ ValidateApiKey(q.apiKey).email = emitted[i].user_email
       ELSE /\ emitted[i].reason = "Invalid or expired API key"
            /\ DOMAIN emitted[i] = {"event", "method", "success", "reason"}
  /\ (sent.pc = "done" /\ sent.auth = "rejected") =>
       (AuthRecords # {} /\ \A i \in AuthRecords : ~emitted[i].success)

\* C32 witness: a key was rejected, the failure is logged and the last
\* step's records are free of the token
C32_Witness ==
  /\ sent.pc = "done"
  /\ sent.auth = "rejected"
  /\ sent.apiKey = "wtyk_revoked"
  /\ Len(emitted) = 1
  /\ emitted[1].event = "auth_attempt"
  /\ ~emitted[1].success

(***************************************************************************)
(* Claims about the keys of the response cache.                            *)
(***************************************************************************)
\* The KRS numbers and extract types that the calls look up
LookupPairs ==
  {[krs |-> a.krs, type |-> TypeOrDefault(a.type)] : a \in ViewCompanyArgs}

\* The records made from the registry's answers to a request for the
\* extract of the given type of the given KRS number
RecordsFor(krs, type) ==
  {TransformResponse(a.body, JUndef) :
     a \in {b \in RegistryAnswers(krs, type) :
              /\ b.kind = "response" /\ ResponseOk(b.status) /\ b.body.t = "object"
              /\ ~TransformThrows(b.body)}}

\* The records of every pair that the calls look up
RecordsOfPairs == [p \in LookupPairs |-> RecordsFor(p.krs, p.type)]

\* Different pairs have different keys and no record in common
PairsApart ==
  \A p, r \in LookupPairs :
    p # r => /\ CacheKey(p.krs, p.type) # CacheKey(r.krs, r.type)
             /\ RecordsOfPairs[p] \cap RecordsOfPairs[r] = {}

\* The pair that a finished call asked for
EndedPair == [krs |-> ended.krs, type |-> ended.type]

\* C33: the response cache is keyed by the KRS number and the extract type
\* together: every entry holds, under the key of its pair, a record made
\* from an answer to a request for that pair, and every record that a call
\* returns, from the cache or from the registry, is such a record for the
\* pair the call asked for.  Records of different pairs differ, so no pair
\* answers for another and none overwrites another.
C33_KeyedByNumberAndType ==
  /\ PairsApart
  /\ \A e \in kv : \E p \in LookupPairs :
       /\ e.key = CacheKey(p.krs, p.type)
       /\ Parse(e.value) \in RecordsOfPairs[p]
  /\ \A p \in LookupPairs : Cardinality(EntriesOf(kv, CacheKey(p.krs, p.type))) <= 1
  /\ (Ended /\ ended.outcome.kind = "record") =>
       ended.outcome.data \in RecordsOfPairs[EndedPair]

\* C33 witness: with the current extract of a KRS number cached, a call
\* for the full extract of the same number missed, was answered by the
\* registry, and the cache now holds both extracts
C33_Witness ==
  /\ EntriesOf(kv, CacheKey("0000012345", "aktualny")) # {}
  /\ EntriesOf(kv, CacheKey("0000012345", "pelny")) # {}
  /\ Ended
  /\ ~ended.hit
  /\ ended.outcome.kind = "record"
  /\ ended.krs = "0000012345"
  /\ ended.type = "pelny"
  /\ ended.outcome.data \in RecordsOfPairs[EndedPair]

(***************************************************************************)
(* Claims about the identity that the key-based lane answers with.         *)
(***************************************************************************)
\* The last request was answered by handleToolsCall with a tool result
ToolCallAnswered ==
  /\ sent.pc = "done"
  /\ sent.handler = "handleToolsCall"
  /\ sent.response.error = JUndef

\* C34: the userId in the result of a tools/call of the key-based lane, in
\* its structured content and in its text alike, is the userId that
\* validateApiKey gives for the key of that same request, whatever other
\* requests are in flight and whatever servers have been evicted.
C34_AnswersWithOwnIdentity ==
  ToolCallAnswered =>
    /\ ValidateApiKey(sent.apiKey) # NoUser
    /\ sent.response.result.structuredContent.userId = ValidateApiKey(sent.apiKey).userId
    /\ sent.response.result.content[1].text.userId = ValidateApiKey(sent.apiKey).userId
    /\ \A k \in DOMAIN ApiKeyOwner :
         k # sent.apiKey =>
           sent.response.result.structuredContent.userId # ApiKeyOwner[k].userId

\* C34 witness: a tools/call was answered for one identity while a request
\* of another identity is authenticated and waiting, after the server of a
\* third identity has been evicted
C34_Witness ==
  /\ ToolCallAnswered
  /\ sent.response.result.structuredContent.userId = ValidateApiKey(sent.apiKey).userId
  /\ \E q \in InFlight : q.auth = "accepted" /\ q.userId # sent.userId
  /\ \E u \in Identities : evictions[u] > 0 /\ u # sent.userId

(***************************************************************************)
(* Claims about the router and the handler taken together.                 *)
(***************************************************************************)
\* For every path and header, of any shape, that the router forwards to the
\* key-based lane, the handler extracts a token that is not empty and starts
\* with "wtyk_", and goes on to validation
ForwardedHaveKey ==
  \A pathname \in Pathnames, authHeader \in AuthHeaders :
    IsApiKeyRequest(pathname, authHeader) =>
      /\ ~MissingApiKey(ExtractApiKey(authHeader))
      /\ StartsWith(ExtractApiKey(authHeader), "wtyk_")
      /\ Enter("fetch", authHeader).pc = "validating"
      /\ Enter("fetch", authHeader).apiKey = ExtractApiKey(authHeader)

\* The requests of the key-based lane that came through the router
Forwarded == {q \in InFlight \cup {sent} : q.via = "fetch"}

\* C35: a request that the router forwards to handleApiKeyRequest has a
\* token, extracted by the handler as by the router, that is not empty and
\* starts with "wtyk_"; such a request is never answered "Missing
\* Authorization header", and when it is answered 401 validateApiKey has
\* refused its key.
C35_ForwardedNeverMissingKey ==
  /\ ForwardedHaveKey
  /\ \A q \in Forwarded :
       /\ ~MissingApiKey(ExtractApiKey(q.authHeader))
       /\ StartsWith(ExtractApiKey(q.authHeader), "wtyk_")
       /\ q.error # "Missing Authorization header"
       /\ q.status = 401 =>
            /\ q.auth = "rejected"
            /\ q.error = "Invalid or expired API key"
            /\ ValidateApiKey(q.apiKey) = NoUser

\* C35 witness: a request that came through the router was answered 401
C35_Witness ==
  /\ sent.pc = "done"
  /\ sent.via = "fetch"
  /\ sent.status = 401
  /\ sent.auth = "rejected"
  /\ StartsWith(ExtractApiKey(sent.authHeader), "wtyk_")

(***************************************************************************)
(* Claims about the listings of the dispatcher and what its handlers       *)
(* accept.                                                                 *)
(***************************************************************************)
\* The names in the answer to a tools/list request
ToolsListing ==
  LET listed == HandleToolsList(Envelope(JStr("2.0"), JNum("1"), JStr("tools/list"), JUndef))
  IN {listed.result.tools[i].name : i \in 1..Len(listed.result.tools)}

\* The URIs in the answer to a resources/list request
ResourcesListing ==
  LET listed == HandleResourcesList(Envelope(JStr("2.0"), JNum("1"),
                                             JStr("resources/list"), JUndef))
  IN {listed.result.resources[i].uri : i \in 1..Len(listed.result.resources)}

\* tools/call does not answer -32602 for the name
AcceptsTool(name) ==
  HandleToolsCall(Envelope(JStr("2.0"), JNum("1"), JStr("tools/call"),
                           [t |-> "object", name |-> JStr(name)]), "u1", now).error = JUndef

\* resources/read does not answer -32602 for the URI
AcceptsResource(uri) ==
  HandleResourcesRead(Envelope(JStr("2.0"), JNum("1"), JStr("resources/read"),
                               [t |-> "object", uri |-> JStr(uri)])).error = JUndef

ListedResources ==
  {rpc.response.result.resources[i].uri : i \in 1..Len(rpc.response.result.resources)}

\* C36: the listings of the key-based lane and its handlers agree: each
\* tool name that tools/list returns is accepted by tools/call, and
\* tools/call answers -32602 exactly for the names that are not listed;
\* each URI that resources/list returns is accepted by resources/read, and
\* resources/read answers -32602 exactly for the URIs that are not listed.
C36_ListingsMatchHandlers ==
  (Answered /\ ValidEnvelope) =>
    /\ rpc.handler = "handleToolsList" =>
         /\ HasResult
         /\ ListedTools = ToolsListing
         /\ \A name \in ListedTools : AcceptsTool(name)
    /\ rpc.handler = "handleToolsCall" =>
         (ErrorCode # -32602 <=>
            /\ RequestParam("name").t = "string"
            /\ RequestParam("name").v \in ToolsListing)
    /\ rpc.handler = "handleResourcesList" =>
         /\ HasResult
         /\ ListedResources = ResourcesListing
         /\ \A uri \in ListedResources : AcceptsResource(uri)
    /\ rpc.handler = "handleResourcesRead" =>
         (ErrorCode # -32602 <=>
            /\ RequestParam("uri").t = "string"
            /\ RequestParam("uri").v \in ResourcesListing)

\* C36 witness: tools/call has accepted a listed name
C36_Witness ==
  /\ Answered /\ ValidEnvelope
  /\ rpc.handler = "handleToolsCall"
  /\ HasResult
  /\ RequestParam("name") = JStr("example-tool")
  /\ "example-tool" \in ToolsListing

(***************************************************************************)
(* Claims about the frame of has.                                          *)
(***************************************************************************)
\* C37: has returns true exactly when the key is cached and changes
\* nothing: the entries, their order, their values and their lastAccessed
\* timestamps are as before, nothing is logged, and the entry that the next
\* eviction would delete is the same as before.
C37_HasProbesOnly ==
  [][\A key \in CacheKeys :
       (ret'.op = "has" /\ Has(key))
         => /\ ret'.result = (key \in Keys(cache))
            /\ cache' = cache
            /\ \A i \in 1..Len(cache) : cache'[i].lastAccessed = cache[i].lastAccessed
            /\ LRUSize(cache') = LRUSize(cache)
            /\ OldestKey(cache') = OldestKey(cache)
            /\ emitted' = <<>>]_vars

\* C37 witness: has has found the key of the oldest entry of a full cache
\* after the clock has moved, and that entry is still the oldest
C37_Witness ==
  /\ ret.op = "has"
  /\ ret.result = TRUE
  /\ LRUSize(cache) = MaxSize
  /\ OldestKey(cache) = ret.key
  /\ cache[IndexOf(cache, ret.key)].lastAccessed < now
====
